---- MODULE Spec2Model ----
(***************************************************************************)
(* PID-demo: the discrete-time control simulation core.                    *)
(*                                                                         *)
(* Numbers.  The JavaScript code computes in IEEE doubles; the model       *)
(* computes in fixed point on the integers, and every operation that is    *)
(* not exact rounds to the nearest representable value (RoundDiv, MulDiv), *)
(* as a double operation rounds to the nearest double.                     *)
(*   - plant quantities and errors (degrees C, metres, radians, their      *)
(*     rates) are in micro-units: value * 10^6;                            *)
(*   - an integral of the error is in micro-unit seconds;                  *)
(*   - a derivative of the error is in milli-units per second;             *)
(*   - actuation (watts, newtons) and a PID output are in milli-units;     *)
(*   - a timestep dt and the simulated time are in milliseconds;           *)
(*   - Infinity is a value larger than every finite value reached.         *)
(***************************************************************************)
EXTENDS Integers, Sequences, FiniteSets, TLC

VARIABLES
  cfg,     \* the controller's configuration (createPIDController's `defaults`)
  pid,     \* the controller's state (createPIDController's `state`)
  res,     \* what the last compute call returned
  hist,    \* history: the last operation and what it started from
  sim,     \* which simulator component is mounted, with its constants
  plant,   \* the simulator's physics state (stateRef.current)
  loop,    \* the component's React state and its animation loop's locals
  rng      \* the state of the generator behind Math.random()

vars == <<cfg, pid, res, hist, sim, plant, loop, rng>>

----------------------------------------------------------------------------
(* Arithmetic                                                              *)

Abs(a) == IF a < 0 THEN -a ELSE a

\* Math.max / Math.min
MathMax(a, b) == IF a >= b THEN a ELSE b
MathMin(a, b) == IF a <= b THEN a ELSE b

\* a / b rounded to the nearest integer, halves away from zero (b > 0)
RoundDiv(a, b) ==
  IF a >= 0 THEN (2 * a + b) \div (2 * b) ELSE -((2 * (-a) + b) \div (2 * b))

\* a * b / c rounded to the nearest integer (c > 0), computed without an
\* intermediate product beyond 32 bits: |a| * c must stay below 10^9
MulDiv(a, b, c) ==
  LET sign == IF (a < 0) = (b < 0) THEN 1 ELSE -1
      aa   == Abs(a)
      bb   == Abs(b)
  IN  sign * (aa * (bb \div c) + RoundDiv(aa * (bb % c), c))

\* JavaScript's Infinity: beyond every finite value of the model
Infinity == 2000000000

\* milliseconds per second: dt (s) = dtMs / MsPerSec; also milli-units per unit
\* and micro-units per milli-unit
MsPerSec == 1000

\* micro-units per unit
Unit == MsPerSec * MsPerSec

\* x * y of two micro-unit values, in micro-units (|x|, |y| up to 5 * 10^8):
\* x = x1 * 1000 + x0, y = y1 * 1000 + y0, the partial products rounded
MulMicro(x, y) ==
  LET sign == IF (x < 0) = (y < 0) THEN 1 ELSE -1
      x1   == Abs(x) \div MsPerSec
      x0   == Abs(x) % MsPerSec
      y1   == Abs(y) \div MsPerSec
      y0   == Abs(y) % MsPerSec
  IN  sign * (x1 * y1
              + RoundDiv(x1 * y0 + x0 * y1 + RoundDiv(x0 * y0, MsPerSec), MsPerSec))

\* x / y of two micro-unit values, in micro-units (0 < y up to 10^7): a long
\* division, two decimal digits at a time
DivMicro(x, y) ==
  LET sign == IF x < 0 THEN -1 ELSE 1
      q0   == Abs(x) \div y
      r0   == Abs(x) % y
      q1   == (r0 * 100) \div y
      r1   == (r0 * 100) % y
      q2   == (r1 * 100) \div y
      r2   == (r1 * 100) % y
      q3   == RoundDiv(r2 * 100, y)
  IN  sign * (q0 * Unit + q1 * 10000 + q2 * 100 + q3)

\* Math.PI, in micro-radians
PI == 3141593

\* an angle brought into [-PI, PI)
Turned(x) == ((x + PI) % (2 * PI)) - PI

\* the series x - x^3/3! + x^5/5! - ... + x^9/9! - x^11/11! for y in
\* [-PI/2, PI/2] and y2 = y * y, which is within a millionth of the sine
SinSeries(y, y2) ==
  MulMicro(y,
    Unit - MulMicro(RoundDiv(y2, 6),
      Unit - MulMicro(RoundDiv(y2, 20),
        Unit - MulMicro(RoundDiv(y2, 42),
          Unit - MulMicro(RoundDiv(y2, 72), Unit - RoundDiv(y2, 110))))))

\* the series 1 - x^2/2! + x^4/4! - ... - x^10/10! for y2 = y * y
CosSeries(y2) ==
  Unit - MulMicro(RoundDiv(y2, 2),
    Unit - MulMicro(RoundDiv(y2, 12),
      Unit - MulMicro(RoundDiv(y2, 30),
        Unit - MulMicro(RoundDiv(y2, 56), Unit - RoundDiv(y2, 90)))))

\* sin and cos of an angle t in [-PI, PI): sin(t) = sin(PI - t) and
\* cos(t) = -cos(PI - |t|) beyond [-PI/2, PI/2]
SinFolded(y) == SinSeries(y, MulMicro(y, y))

SinTurned(t) ==
  IF 2 * t > PI THEN SinFolded(PI - t)
  ELSE IF 2 * t < -PI THEN SinFolded(-PI - t) ELSE SinFolded(t)

CosTurned(t) ==
  IF 2 * Abs(t) > PI THEN -CosSeries(MulMicro(PI - Abs(t), PI - Abs(t)))
  ELSE CosSeries(MulMicro(t, t))

\* Math.sin(x) and Math.cos(x), x in micro-radians
Sin(x) == SinTurned(Turned(x))

Cos(x) == CosTurned(Turned(x))

----------------------------------------------------------------------------
(* utils/pidController.js                                                  *)

\* error * dt, in micro-unit seconds
ErrorTimesDt(error, dtMs) == MulDiv(dtMs, error, MsPerSec)

\* the anti-windup update of the integral, Math.max(min, Math.min(max, i + e*dt))
NoUpperClampIntegral(integral, error, dtMs, integralMin, integralMax) ==
  MathMax(integralMin, integral + ErrorTimesDt(error, dtMs))

ClampIntegral(integral, error, dtMs, integralMin, integralMax) ==
  MathMax(integralMin, MathMin(integralMax, integral + ErrorTimesDt(error, dtMs)))

\* (error - prevError) / dt, in milli-units per second
RawDerivative(error, prevError, dtMs) == RoundDiv(error - prevError, dtMs)

\* kp * error + ki * integral + kd * derivative, in milli-units
PIDOutput(gains, error, integral, derivative) ==
  MulDiv(gains.kp, error, MsPerSec) + MulDiv(gains.ki, integral, MsPerSec)
    + gains.kd * derivative

\* computePID({error, integral, prevError, kp, ki, kd, dt, integralMin, integralMax});
\* `derivative` is its local of that name, kept in the result as an observable
computePID(p) ==
  LET newIntegral == ClampIntegral(p.integral, p.error, p.dtMs, p.integralMin, p.integralMax)
      derivative  == RawDerivative(p.error, p.prevError, p.dtMs)
      output      == PIDOutput(p.gains, p.error, newIntegral, derivative)
  IN  [output |-> output, integral |-> newIntegral, prevError |-> p.error,
       derivative |-> derivative]


\* createPIDController(config): `state` and `defaults` of the shared controller
utilsInitialState == [integral |-> 0, prevError |-> 0]

\* compute(error, gains, dt): runs computePID on the stored state, stores
\* result.integral and result.prevError, returns result.output
utilsCompute(c, state, error, gains, dtMs) ==
  LET result == computePID([error |-> error, integral |-> state.integral,
                            prevError |-> state.prevError, gains |-> gains,
                            dtMs |-> dtMs, integralMin |-> c.integralMin,
                            integralMax |-> c.integralMax])
  IN  [state  |-> [integral |-> result.integral, prevError |-> result.prevError],
       result |-> [output |-> result.output, derivative |-> result.derivative]]

\* reset(): integral = 0, prevError = 0
utilsReset(state) == [integral |-> 0, prevError |-> 0]

\* resetIntegral(): integral = 0
utilsResetIntegral(state) == [state EXCEPT !.integral = 0]

----------------------------------------------------------------------------
(* The controller embedded in simulators/DroneAltitudeStandalone.jsx and   *)
(* simulators/InvertedPendulumStandalone.jsx (the two copies are the same) *)

\* defaults.derivativeWindowSize
derivativeWindowSize == 5

windowedInitialState ==
  [integral |-> 0, prevError |-> 0, initialized |-> FALSE, derivativeHistory |-> <<>>]

RECURSIVE SeqSum(_)
SeqSum(s) == IF s = <<>> THEN 0 ELSE Head(s) + SeqSum(Tail(s))

\* state.initialized ? (error - state.prevError) / dt : 0
WindowedRawDerivative(state, error, dtMs) ==
  IF state.initialized THEN RawDerivative(error, state.prevError, dtMs) ELSE 0

\* derivativeHistory.push(raw); if (length > windowSize) derivativeHistory.shift()
NeverShiftHistory(history, raw, windowSize) == Append(history, raw)

\* a window that drops the sample just pushed instead of the oldest
EvictNewest(history, raw, windowSize) ==
  IF Len(history) >= windowSize THEN history ELSE Append(history, raw)

PushDerivative(history, raw, windowSize) ==
  LET pushed == Append(history, raw)
  IN  IF Len(pushed) > windowSize THEN Tail(pushed) ELSE pushed

\* derivativeHistory.reduce((sum, val) => sum + val, 0) / derivativeHistory.length
MovingAverage(history) == RoundDiv(SeqSum(history), Len(history))

\* compute(error, gains, dt) of the embedded controller
windowedCompute(c, state, error, gains, dtMs) ==
  LET newIntegral   == ClampIntegral(state.integral, error, dtMs, c.integralMin, c.integralMax)
      rawDerivative == WindowedRawDerivative(state, error, dtMs)
      history       == PushDerivative(state.derivativeHistory, rawDerivative,
                                      c.derivativeWindowSize)
      derivative    == MovingAverage(history)
      output        == PIDOutput(gains, error, newIntegral, derivative)
  IN  [state  |-> [integral |-> newIntegral, prevError |-> error,
                   initialized |-> TRUE, derivativeHistory |-> history],
       result |-> [output |-> output, errorP |-> error, errorI |-> newIntegral,
                   errorD |-> derivative]]

\* a reset that leaves the derivative window as it was
ResetKeepsHistory(state) ==
  [windowedInitialState EXCEPT !.derivativeHistory = state.derivativeHistory]

\* reset(): integral = 0, prevError = 0, initialized = false, derivativeHistory = []
windowedReset(state) == windowedInitialState

\* a resetIntegral that also forgets the previous error
ResetIntegralAndPrevError(state) == [state EXCEPT !.integral = 0, !.prevError = 0]

\* resetIntegral(): integral = 0
windowedResetIntegral(state) == [state EXCEPT !.integral = 0]

----------------------------------------------------------------------------
(* The controllers written inline in drone_simulator.jsx (computePIDThrust,*)
(* limit 50), hooks/usePhysicsSimulation.js (computePIDForce, limit 10)    *)
(* and unnamed/part_000 (computePIDPower, limit 100): integral and         *)
(* prevError are fields of the simulator's state object.                   *)

\* state.integral += error * DT; state.integral = Math.max(-L, Math.min(L, state.integral));
\* derivative = (error - state.prevError) / DT; state.prevError = error;
\* return kp * error + ki * state.integral + kd * derivative
inlineCompute(c, state, error, gains, dtMs) ==
  LET integral   == ClampIntegral(state.integral, error, dtMs, c.integralMin, c.integralMax)
      derivative == RawDerivative(error, state.prevError, dtMs)
      output     == PIDOutput(gains, error, integral, derivative)
  IN  [state  |-> [state EXCEPT !.integral = integral, !.prevError = error],
       result |-> [output |-> output, derivative |-> derivative]]

----------------------------------------------------------------------------
(* One controller of any of the three kinds                                *)

InitialState(kind) ==
  IF kind = "windowed" THEN windowedInitialState ELSE utilsInitialState

Compute(c, state, error, gains, dtMs) ==
  CASE c.kind = "utils"    -> utilsCompute(c, state, error, gains, dtMs)
    [] c.kind = "windowed" -> windowedCompute(c, state, error, gains, dtMs)
    [] c.kind = "inline"   -> inlineCompute(c, state, error, gains, dtMs)

\* the derivative term a compute call used
DerivativeOf(c, result) ==
  IF c.kind = "windowed" THEN result.errorD ELSE result.derivative


----------------------------------------------------------------------------
(* A controller driven by arbitrary calls: compute, reset, resetIntegral   *)

\* compute calls made on one controller since construction or reset()
MaxCalls == 7

\* errors passed to compute: 30 units either way, and a thousandth of a unit
BigError == 30000000

SmallError == 1000

ErrorSet == {-BigError, SmallError, BigError}

\* custom integral limits (micro-unit seconds) that two large errors reach
CustomLimit == 40000

GainSet == {[kp |-> 1, ki |-> 1, kd |-> 1], [kp |-> 2, ki |-> 0, kd |-> 3]}

\* integral limits of 50 (error-units * s), as the drone's controllers set them
DroneIntegralLimit == 50

\* the configurations of the repository's controllers, and custom ones a
\* caller of createPIDController(config) may pass
ConfigSet ==
  { \* createPIDController() in simulators/HotTub.jsx (dt = 0.1)
    [kind |-> "utils", integralMin |-> -Infinity, integralMax |-> Infinity,
     derivativeWindowSize |-> 0, dtMs |-> 100],
    \* createPIDController({integralMin: -50, integralMax: 50}), the drone
    [kind |-> "utils", integralMin |-> -DroneIntegralLimit * Unit,
     integralMax |-> DroneIntegralLimit * Unit,
     derivativeWindowSize |-> 0, dtMs |-> 1],
    \* a custom interval that does not hold the initial integral 0
    [kind |-> "utils", integralMin |-> SmallError, integralMax |-> CustomLimit,
     derivativeWindowSize |-> 0, dtMs |-> 1],
    \* createPIDController() in the standalone simulators
    [kind |-> "windowed", integralMin |-> -Infinity, integralMax |-> Infinity,
     derivativeWindowSize |-> derivativeWindowSize, dtMs |-> 1],
    \* the embedded controller with custom limits
    [kind |-> "windowed", integralMin |-> -CustomLimit, integralMax |-> CustomLimit,
     derivativeWindowSize |-> derivativeWindowSize, dtMs |-> 1],
    \* a caller's mistake: integralMin > integralMax
    [kind |-> "windowed", integralMin |-> CustomLimit, integralMax |-> -CustomLimit,
     derivativeWindowSize |-> derivativeWindowSize, dtMs |-> 1],
    \* computePIDThrust of drone_simulator.jsx
    [kind |-> "inline", integralMin |-> -DroneIntegralLimit * Unit,
     integralMax |-> DroneIntegralLimit * Unit,
     derivativeWindowSize |-> 0, dtMs |-> 1] }

NoResult == [output |-> 0]

\* a controller on its own: no simulator is mounted
NoSim == [name |-> "none"]

NoPlant == [time |-> 0]

NoLoop == [isRunning |-> FALSE]

InitPID ==
  /\ cfg \in ConfigSet
  /\ pid = InitialState(cfg.kind)
  /\ res = NoResult
  /\ hist = [op |-> "create", calls |-> 0, run |-> 0]
  /\ sim = NoSim
  /\ plant = NoPlant
  /\ loop = NoLoop
  /\ rng = 0

\* pidController.compute(error, gains, dt)
PidCompute ==
  /\ hist.calls < MaxCalls
  /\ \E error \in ErrorSet, gains \in GainSet :
       LET r == Compute(cfg, pid, error, gains, cfg.dtMs)
       IN  /\ pid' = r.state
           /\ res' = r.result
           /\ hist' = [op |-> "compute", calls |-> hist.calls + 1,
                       run |-> IF hist.calls > 0 /\ error = pid.prevError
                               THEN hist.run + 1 ELSE 1]
  /\ UNCHANGED <<cfg, sim, plant, loop, rng>>

\* pidController.reset(); the inline controllers are reset by resetSimulation,
\* which writes integral: 0, prevError: 0
PidReset ==
  /\ pid' = IF cfg.kind = "windowed" THEN windowedReset(pid) ELSE utilsReset(pid)
  /\ hist' = [op |-> "reset", calls |-> 0, run |-> 0,
              used |-> pid # InitialState(cfg.kind)]
  /\ UNCHANGED <<cfg, res, sim, plant, loop, rng>>

\* pidController.resetIntegral(); changeSetpoint of drone_simulator.jsx writes
\* state.integral = 0
PidResetIntegral ==
  /\ pid' = IF cfg.kind = "windowed" THEN windowedResetIntegral(pid)
            ELSE utilsResetIntegral(pid)
  /\ hist' = [op |-> "resetIntegral", calls |-> hist.calls, run |-> hist.run,
              held |-> pid.integral # 0]
  /\ UNCHANGED <<cfg, res, sim, plant, loop, rng>>

NextPID == PidCompute \/ PidReset \/ PidResetIntegral

SpecPID == InitPID /\ [][NextPID]_vars

----------------------------------------------------------------------------
(* C1: anti-windup bound.  For a controller configured with                *)
(* integralMin <= integralMax, the stored integral after every compute     *)
(* call lies within [integralMin, integralMax].                            *)
AntiWindupBound ==
  (hist.op = "compute" /\ cfg.integralMin <= cfg.integralMax)
    => (cfg.integralMin <= pid.integral /\ pid.integral <= cfg.integralMax)

\* a compute call that saturated a finite upper limit
AntiWindupWitness ==
  /\ hist.op = "compute"
  /\ cfg.integralMax < Infinity
  /\ cfg.integralMin <= cfg.integralMax
  /\ pid.integral = cfg.integralMax
  /\ hist.calls >= 2

(* C2: no derivative kick.  In every controller of the repository the      *)
(* first compute call after construction or reset() uses a derivative term *)
(* of 0, whatever the error.                                               *)
NoDerivativeKick ==
  (hist.op = "compute" /\ hist.calls = 1) => DerivativeOf(cfg, res) = 0

(* C3, as stated: after derivativeWindowSize consecutive compute calls     *)
(* with the same error the filtered derivative errorD is 0.                *)
WindowConvergesInWindowSize ==
  (cfg.kind = "windowed" /\ hist.op = "compute" /\ hist.run >= cfg.derivativeWindowSize)
    => res.errorD = 0

(* C3, amended: after derivativeWindowSize + 1 consecutive compute calls   *)
(* with the same error the filtered derivative errorD is 0.                *)
WindowConvergesAfterWindowSizePlusOne ==
  (cfg.kind = "windowed" /\ hist.op = "compute"
     /\ hist.run >= cfg.derivativeWindowSize + 1)
    => res.errorD = 0

\* window + 1 equal errors after a call with another error, the window full of zeros
WindowConvergesWitness ==
  /\ cfg.kind = "windowed"
  /\ hist.op = "compute"
  /\ hist.run = cfg.derivativeWindowSize + 1
  /\ hist.calls > hist.run
  /\ Len(pid.derivativeHistory) = cfg.derivativeWindowSize
  /\ res.errorD = 0

----------------------------------------------------------------------------
(* The hot tub: simulators/HotTub.jsx (HotTubSimulator) and the older      *)
(* unnamed/part_000, which carry the same constants and the same step.     *)
(* Temperatures are in micro-degrees C, powers in milliwatts.              *)

WATER_MASS == 1500
SPECIFIC_HEAT == 4186
THERMAL_MASS == WATER_MASS * SPECIFIC_HEAT
HEAT_LOSS_COEFFICIENT == 500
MAX_HEATER_POWER == 15000
MIN_HEATER_POWER == 0
MIN_TEMP == 0
MAX_TEMP == 50
SETPOINT_MIN == 30
SETPOINT_MAX == 42
AMBIENT_MIN == -10
AMBIENT_MAX == 35

\* DT = 0.1 and TIME_SCALE = 600 of both hot tubs
HotTubDtMs == 100
HotTubTimeScale == 600

\* the limit of the integral in unnamed/part_000's computePIDPower
LegacyHotTubIntegralLimit == 100

\* stateRef's initial value, which resetSimulation writes again
InitialTemperature == 38
InitialAmbient == 20

HotTub ==
  [name |-> "HotTub", plant |-> "tub", dtMs |-> HotTubDtMs,
   timeScale |-> HotTubTimeScale, maxInput |-> MAX_HEATER_POWER * MsPerSec,
   pid |-> [kind |-> "utils", integralMin |-> -Infinity, integralMax |-> Infinity,
            derivativeWindowSize |-> 0, dtMs |-> HotTubDtMs],
   defaultGains |-> [kp |-> 2500, ki |-> 0, kd |-> 0]]

LegacyHotTub ==
  [name |-> "LegacyHotTub", plant |-> "tub", dtMs |-> HotTubDtMs,
   timeScale |-> HotTubTimeScale, maxInput |-> MAX_HEATER_POWER * MsPerSec,
   pid |-> [kind |-> "inline", integralMin |-> -LegacyHotTubIntegralLimit * Unit,
            integralMax |-> LegacyHotTubIntegralLimit * Unit,
            derivativeWindowSize |-> 0, dtMs |-> HotTubDtMs],
   defaultGains |-> [kp |-> 2000, ki |-> 100, kd |-> 5000]]

\* stateRef.current of the hot tub after construction and after resetSimulation
tubInitialState ==
  [temperature |-> InitialTemperature * Unit, setpoint |-> InitialTemperature * Unit,
   ambient |-> InitialAmbient * Unit, time |-> 0, heaterPower |-> 0]

\* Math.max(lo, Math.min(hi, v))
Clamp(v, lo, hi) == MathMax(lo, MathMin(hi, v))

\* power = Math.max(MIN_HEATER_POWER, Math.min(MAX_HEATER_POWER, power))
UnclampedHeaterPower(power) == power

ClampHeaterPower(power) ==
  Clamp(power, MIN_HEATER_POWER * MsPerSec, MAX_HEATER_POWER * MsPerSec)

\* heatLoss = HEAT_LOSS_COEFFICIENT * (temperature - ambient), in milliwatts
GainFromAmbient(temperature, ambient) ==
  MulDiv(HEAT_LOSS_COEFFICIENT, ambient - temperature, MsPerSec)

HeatLoss(temperature, ambient) ==
  MulDiv(HEAT_LOSS_COEFFICIENT, temperature - ambient, MsPerSec)

\* state.temperature = Math.max(0, Math.min(50, state.temperature))
ClampTemperature(temperature) == Clamp(temperature, MIN_TEMP * Unit, MAX_TEMP * Unit)

\* simulateStep(power) of the hot tub
tubSimulateStep(state, rawPower) ==
  LET power    == ClampHeaterPower(rawPower)
      heatLoss == HeatLoss(state.temperature, state.ambient)
      netPower == power - heatLoss
      dT       == MulDiv(HotTubDtMs, netPower, THERMAL_MASS)
  IN  [state EXCEPT !.heaterPower = power,
                    !.temperature = ClampTemperature(state.temperature + dT),
                    !.time = state.time + HotTubDtMs]

\* computePIDPower(): error = state.setpoint - state.temperature, then the
\* controller's compute(error, pidGains, DT)
computePIDPower(sm, state, controller, gains) ==
  Compute(sm.pid, controller, state.setpoint - state.temperature, gains, sm.dtMs)

\* controlMode === 'pid' in the loops that offer a manual mode
ManualOnly(ctl) == FALSE

PidSelected(ctl) == ctl.controlMode = "pid"

\* userInput * MAX_HEATER_POWER and the like: the manual actuation, userInput
\* in thousandths
ManualInput(sm, userInput) == MulDiv(userInput, sm.maxInput, MsPerSec)

\* the body of the animation loop's while loop in the hot tub:
\*   power = controlMode === 'pid' ? computePIDPower() : userInput * MAX_HEATER_POWER;
\*   simulateStep(power)
\* w holds stateRef.current (plant), the controller's state (pid) and the
\* last compute result (res); ctl holds controlMode, userInput and pidGains
tubIterate(sm, w, ctl) ==
  IF PidSelected(ctl)
  THEN LET r == computePIDPower(sm, w.plant, w.pid, ctl.pidGains)
       IN  [plant |-> tubSimulateStep(w.plant, r.result.output),
            pid |-> r.state, res |-> r.result, input |-> r.result.output, rng |-> w.rng]
  ELSE LET power == ManualInput(sm, ctl.userInput)
       IN  [plant |-> tubSimulateStep(w.plant, power),
            pid |-> w.pid, res |-> w.res, input |-> power, rng |-> w.rng]

----------------------------------------------------------------------------
(* The drone: simulators/HotTub.jsx (DroneAltitudeSimulator), the older    *)
(* drone_simulator.jsx and simulators/DroneAltitudeStandalone.jsx.         *)
(* Altitudes are in micrometres, velocities in micrometres per second,     *)
(* accelerations in millimetres per second squared, masses in grams,       *)
(* thrusts and forces in millinewtons.                                     *)

\* GRAVITY = 9.81, in millimetres per second squared
GRAVITY == 9810

\* BASE_DRONE_MASS = 2.0 and MASS_INCREMENT = 1.0, in grams
BASE_DRONE_MASS == 2000
MASS_INCREMENT == 1000

\* MAX_THRUST and MIN_THRUST of HotTub.jsx and drone_simulator.jsx, newtons
MAX_THRUST == 500
MIN_THRUST == -500

\* MAX_ALTITUDE (CRASH_CEILING) and CRASH_FLOOR, metres
MAX_ALTITUDE == 100
CRASH_FLOOR == 0

\* DT = 0.001 of the drones and the pendulums
DroneDtMs == 1

\* the altitude and setpoint of stateRef's initial value, metres
InitialAltitude == 50
DroneSetpointMin == 20
DroneSetpointMax == 80

\* DroneAltitudeStandalone.jsx: MAX_THRUST, MIN_THRUST (newtons), MIN_MASS,
\* DEFAULT_MASS (grams)
StandaloneMaxThrust == 2000
StandaloneMinThrust == -2000
MIN_MASS == 1000
DEFAULT_MASS == 10000

\* baseHoverThrust = BASE_DRONE_MASS * GRAVITY
baseHoverThrust == MulDiv(GRAVITY, BASE_DRONE_MASS, MsPerSec)

Drone ==
  [name |-> "Drone", plant |-> "drone", dtMs |-> DroneDtMs, timeScale |-> 1,
   maxInput |-> MAX_THRUST * MsPerSec,
   minThrust |-> MIN_THRUST * MsPerSec, maxThrust |-> MAX_THRUST * MsPerSec,
   hover |-> baseHoverThrust, mass |-> BASE_DRONE_MASS,
   pid |-> [kind |-> "utils", integralMin |-> -DroneIntegralLimit * Unit,
            integralMax |-> DroneIntegralLimit * Unit,
            derivativeWindowSize |-> 0, dtMs |-> DroneDtMs],
   defaultGains |-> [kp |-> 25, ki |-> 0, kd |-> 0]]

LegacyDrone ==
  [name |-> "LegacyDrone", plant |-> "drone", dtMs |-> DroneDtMs, timeScale |-> 1,
   maxInput |-> MAX_THRUST * MsPerSec,
   minThrust |-> MIN_THRUST * MsPerSec, maxThrust |-> MAX_THRUST * MsPerSec,
   hover |-> baseHoverThrust, mass |-> BASE_DRONE_MASS,
   pid |-> [kind |-> "inline", integralMin |-> -DroneIntegralLimit * Unit,
            integralMax |-> DroneIntegralLimit * Unit,
            derivativeWindowSize |-> 0, dtMs |-> DroneDtMs],
   defaultGains |-> [kp |-> 25, ki |-> 8, kd |-> 15]]

\* no manual mode, no hover baseline, an unlimited integral
DroneStandalone ==
  [name |-> "DroneStandalone", plant |-> "drone", dtMs |-> DroneDtMs, timeScale |-> 1,
   maxInput |-> 0,
   minThrust |-> StandaloneMinThrust * MsPerSec,
   maxThrust |-> StandaloneMaxThrust * MsPerSec,
   hover |-> 0, mass |-> DEFAULT_MASS,
   pid |-> [kind |-> "windowed", integralMin |-> -Infinity, integralMax |-> Infinity,
            derivativeWindowSize |-> derivativeWindowSize, dtMs |-> DroneDtMs],
   defaultGains |-> [kp |-> 50, ki |-> 5, kd |-> 30]]

\* stateRef.current of a drone after construction and after resetSimulation
\* (integral, prevError of drone_simulator.jsx are the controller's state)
droneInitialState(sm) ==
  LET state == [altitude |-> InitialAltitude * Unit, velocity |-> 0, mass |-> sm.mass,
                setpoint |-> InitialAltitude * Unit, time |-> 0, thrust |-> 0,
                crashed |-> FALSE]
  IN  IF sm.name = "LegacyDrone" THEN state @@ [massAdded |-> 0] ELSE state

\* calculateSetpoint(time) of DroneAltitudeStandalone.jsx, for the modes
\* 'constant' and 'box' (boxPeriodMs = 1000 / boxFrequency):
\*   phase = (time % period) / period;
\*   return baseSetpoint + (phase < 0.5 ? boxAmplitude : -boxAmplitude)
calculateSetpoint(ctl, time) ==
  IF ctl.setpointMode = "box"
  THEN IF 2 * (time % ctl.boxPeriodMs) < ctl.boxPeriodMs
       THEN InitialAltitude * Unit + ctl.boxAmplitude
       ELSE InitialAltitude * Unit - ctl.boxAmplitude
  ELSE ctl.constantSetpoint

\* if (state.crashed) return, if (state.fallen) return,
\* if (currentFallen) return null
NeverTerminal(state) == FALSE

Terminal(state) ==
  IF "crashed" \in DOMAIN state THEN state.crashed ELSE state.fallen

\* an acceleration that forgets the mass
ForceAsAcceleration(netForce, mass) == netForce

\* acceleration = mass > 0 ? netForce / mass : 0 (the standalone divides
\* without the test; its mass is at least MIN_MASS)
Acceleration(netForce, mass) ==
  IF mass > 0 THEN MulDiv(MsPerSec, netForce, mass) ELSE 0

StrictlyOutOfAirspace(altitude) ==
  altitude < CRASH_FLOOR * Unit \/ altitude > MAX_ALTITUDE * Unit

\* a crash test whose floor is the altitude of the initial state
HighFloor(altitude) ==
  altitude <= InitialAltitude * Unit \/ altitude >= MAX_ALTITUDE * Unit

\* state.altitude <= 0 || state.altitude >= MAX_ALTITUDE
OutOfAirspace(altitude) ==
  altitude <= CRASH_FLOOR * Unit \/ altitude >= MAX_ALTITUDE * Unit

\* state.velocity = 0 in the crash branch
KeptVelocity(velocity) == velocity

CrashVelocity(velocity) == 0

\* the clamp of the control signal and the Euler integration of simulateStep:
\*   state.velocity += acceleration * DT; state.altitude += state.velocity * DT
droneIntegrate(sm, state, controlSignal) ==
  LET thrust       == Clamp(controlSignal, sm.minThrust, sm.maxThrust)
      actualThrust == sm.hover + thrust
      gravityForce == MulDiv(GRAVITY, state.mass, MsPerSec)
      netForce     == actualThrust - gravityForce
      acceleration == Acceleration(netForce, state.mass)
      velocity     == state.velocity + acceleration * sm.dtMs
  IN  [thrust |-> thrust, velocity |-> velocity,
       altitude |-> state.altitude + MulDiv(sm.dtMs, velocity, MsPerSec),
       time |-> state.time + sm.dtMs]

\* the crash test and what follows it; the standalone also writes
\* state.setpoint = calculateSetpoint(state.time)
droneCrashTest(sm, state, moved, ctl) ==
  LET setpoint == IF sm.name = "DroneStandalone"
                  THEN calculateSetpoint(ctl, moved.time) ELSE state.setpoint
  IN  IF OutOfAirspace(moved.altitude)
      THEN [state EXCEPT !.thrust = moved.thrust, !.time = moved.time,
              !.setpoint = setpoint, !.crashed = TRUE,
              !.altitude = Clamp(moved.altitude, CRASH_FLOOR * Unit, MAX_ALTITUDE * Unit),
              !.velocity = CrashVelocity(moved.velocity)]
      ELSE [state EXCEPT !.thrust = moved.thrust, !.time = moved.time,
              !.setpoint = setpoint, !.altitude = moved.altitude,
              !.velocity = moved.velocity]

\* simulateStep(controlSignal) of a drone
droneSimulateStep(sm, state, controlSignal, ctl) ==
  IF Terminal(state) THEN state
  ELSE droneCrashTest(sm, state, droneIntegrate(sm, state, controlSignal), ctl)

\* computePIDThrust(): error = state.setpoint - state.altitude, then the
\* controller's compute(error, pidGains, DT)
computePIDThrust(sm, state, controller, gains) ==
  Compute(sm.pid, controller, state.setpoint - state.altitude, gains, sm.dtMs)

\* a pass that steps with the output of the pass before and computes after it
StepThenCompute(sm, w, ctl) ==
  IF PidSelected(ctl)
  THEN LET stepped == droneSimulateStep(sm, w.plant, w.res.output, ctl)
           r       == computePIDThrust(sm, stepped, w.pid, ctl.pidGains)
       IN  [plant |-> stepped, pid |-> r.state, res |-> r.result,
            input |-> w.res.output, rng |-> w.rng]
  ELSE [plant |-> droneSimulateStep(sm, w.plant, ManualInput(sm, ctl.userInput), ctl),
        pid |-> w.pid, res |-> w.res, input |-> ManualInput(sm, ctl.userInput),
        rng |-> w.rng]

\* the body of the while loop in a drone's animation loop:
\*   thrust = controlMode === 'pid' ? computePIDThrust() : userInput * 500;
\*   simulateStep(thrust)
\* (the standalone has the PID only and passes pidResult.output)
droneIterate(sm, w, ctl) ==
  IF PidSelected(ctl)
  THEN LET r == computePIDThrust(sm, w.plant, w.pid, ctl.pidGains)
       IN  [plant |-> droneSimulateStep(sm, w.plant, r.result.output, ctl),
            pid |-> r.state, res |-> r.result, input |-> r.result.output, rng |-> w.rng]
  ELSE LET thrust == ManualInput(sm, ctl.userInput)
       IN  [plant |-> droneSimulateStep(sm, w.plant, thrust, ctl),
            pid |-> w.pid, res |-> w.res, input |-> thrust, rng |-> w.rng]

----------------------------------------------------------------------------
(* The inverted pendulum: unnamed/part_001 (InvertedPendulumSimulator) and *)
(* simulators/InvertedPendulumStandalone.jsx.  Angles are in micro-radians, *)
(* positions in micrometres, masses in milligrams, friction coefficients   *)
(* in millionths; a force is passed in millinewtons and enters the         *)
(* equations in micronewtons.                                              *)

PENDULUM_LENGTH == 2000000
PENDULUM_MASS == 250000
CART_MASS == 1000000
FRICTION_CART == 100000
FRICTION_PENDULUM == 10000
NOISE_AMPLITUDE == 2000
TRACK_WIDTH == 20000000
PendulumDtMs == 1

\* the 0.2 of TRACK_WIDTH / 2 - 0.2
TrackMargin == 200000

\* theta: 0.05 of the constructed state
InitialTheta == 50000

\* (Math.random() - 0.5) * 0.1 of resetSimulation: half the width
ResetThetaAmplitude == 50000

\* positionForce = 20 * state.x + 10 * state.xDot, clamped with the PID's
\* output to [-50, 50] newtons
PositionGain == 20
VelocityGain == 10
ForceLimit == 50

\* userInput * 30 of the manual mode of part_001, and its fixed 50 N nudge
ManualForce == 30
NudgeForce == 50

\* NUDGE_IMPULSE_DURATION, in milliseconds
NUDGE_IMPULSE_DURATION == 500

\* Math.random(): a linear congruential generator of modulus RandomModulus,
\* whose state r stands for the value r / RandomModulus in [0, 1)
RandomModulus == 4096
RandomMultiplier == 1229

NextRandom(r) == (RandomMultiplier * r + 1) % RandomModulus

\* (Math.random() - 0.5) * 2 * amplitude, for the value r / RandomModulus
Symmetric(r, amplitude) == MulDiv(amplitude, 2 * r - RandomModulus, RandomModulus)

Pendulum ==
  [name |-> "Pendulum", plant |-> "pendulum", dtMs |-> PendulumDtMs, timeScale |-> 1,
   maxInput |-> ManualForce * MsPerSec,
   pid |-> [kind |-> "utils", integralMin |-> -Infinity, integralMax |-> Infinity,
            derivativeWindowSize |-> 1, dtMs |-> PendulumDtMs],
   defaultGains |-> [kp |-> 150, ki |-> 0, kd |-> 0]]

PendulumStandalone ==
  [name |-> "PendulumStandalone", plant |-> "pendulum", dtMs |-> PendulumDtMs,
   timeScale |-> 1, maxInput |-> 0,
   pid |-> [kind |-> "windowed", integralMin |-> -Infinity, integralMax |-> Infinity,
            derivativeWindowSize |-> derivativeWindowSize, dtMs |-> PendulumDtMs],
   defaultGains |-> [kp |-> 250, ki |-> 25, kd |-> 75]]

\* InvertedPendulumSimulator of hooks/usePhysicsSimulation.js: a track of 10 m,
\* the PID inline in computePIDForce with the integral kept in [-10, 10]
HOOK_TRACK_WIDTH == 10000000
HookIntegralLimit == 10

HookPendulum ==
  [name |-> "HookPendulum", plant |-> "pendulum", dtMs |-> PendulumDtMs, timeScale |-> 1,
   maxInput |-> ManualForce * MsPerSec,
   pid |-> [kind |-> "inline", integralMin |-> -HookIntegralLimit * Unit,
            integralMax |-> HookIntegralLimit * Unit,
            derivativeWindowSize |-> 0, dtMs |-> PendulumDtMs],
   defaultGains |-> [kp |-> 150, ki |-> 20, kd |-> 40]]

\* stateRef.current of a pendulum with the given theta.  part_001 keeps
\* `fallen` in the state object; the standalone keeps it beside the state, in
\* the loop's localFallen and the React state fallen and failureType, which are
\* set together and cleared by resetSimulation only
pendulumInitialState(sm, theta) ==
  IF sm.name = "PendulumStandalone"
  THEN [theta |-> theta, thetaDot |-> 0, x |-> 0, xDot |-> 0, time |-> 0, force |-> 0,
        floorTilt |-> 0, fallen |-> FALSE, failureType |-> "null"]
  ELSE [theta |-> theta, thetaDot |-> 0, x |-> 0, xDot |-> 0, time |-> 0, force |-> 0,
        fallen |-> FALSE]

\* while (theta > Math.PI) theta -= 2 * Math.PI;
\* while (theta < -Math.PI) theta += 2 * Math.PI
RECURSIVE NormaliseAngle(_)
NormaliseAngle(theta) ==
  IF theta > PI THEN NormaliseAngle(theta - 2 * PI)
  ELSE IF theta < -PI THEN NormaliseAngle(theta + 2 * PI)
  ELSE theta

\* Math.abs(state.x) > TRACK_WIDTH / 2 - 0.2
OffTrack(x) == Abs(x) > TRACK_WIDTH \div 2 - TrackMargin

\* Math.abs(state.theta) > Math.PI / 2
Toppled(theta) == 2 * Abs(theta) > PI

\* cartGravityForce = (M + m) * g * Math.sin(floorTilt)
cartGravityForce(floorTilt) ==
  MulMicro(MulMicro(CART_MASS + PENDULUM_MASS, GRAVITY * MsPerSec), Sin(floorTilt))

\* thetaDDot of simulateStep, from the sine and cosine of the effective angle
\* and the force in micronewtons (m, M, l, g, b, c are the constants)
thetaDDot(state, sinTheta, cosTheta, force, noise) ==
  LET m == PENDULUM_MASS
      M == CART_MASS
      l == PENDULUM_LENGTH
  IN  DivMicro(MulMicro(GRAVITY * MsPerSec, sinTheta)
               + MulMicro(cosTheta,
                   DivMicro(-force
                            - MulMicro(MulMicro(MulMicro(MulMicro(m, l), state.thetaDot),
                                                state.thetaDot), sinTheta)
                            + MulMicro(FRICTION_CART, state.xDot),
                            M + m))
               - DivMicro(MulMicro(FRICTION_PENDULUM, state.thetaDot), MulMicro(m, l))
               + noise,
               MulMicro(l, DivMicro(4 * Unit, 3 * Unit)
                           - DivMicro(MulMicro(MulMicro(m, cosTheta), cosTheta), M + m)))

\* xDDot of simulateStep, from thetaDDot
xDDot(state, sinTheta, cosTheta, force, angular) ==
  DivMicro(force
           + MulMicro(MulMicro(PENDULUM_MASS, PENDULUM_LENGTH),
                      MulMicro(MulMicro(state.thetaDot, state.thetaDot), sinTheta)
                      - MulMicro(angular, cosTheta))
           - MulMicro(FRICTION_CART, state.xDot),
           CART_MASS + PENDULUM_MASS)

\* the Euler step: state.thetaDot += thetaDDot * DT; state.theta += state.thetaDot * DT;
\* the same for xDot and x; state.time += DT; state.force = force; then the
\* normalisation of theta.  thetaDot and xDot are the new rates.
EulerStep(state, thetaDot, xDot, forceMilli, dtMs) ==
  [state EXCEPT !.thetaDot = thetaDot,
                !.theta = NormaliseAngle(state.theta + MulDiv(dtMs, thetaDot, MsPerSec)),
                !.xDot = xDot,
                !.x = state.x + MulDiv(dtMs, xDot, MsPerSec),
                !.time = state.time + dtMs,
                !.force = forceMilli]

\* the accelerations applied: angular is thetaDDot, force the whole force along
\* the track in micronewtons (force and cartGravityForce)
Accelerated(state, sinTheta, cosTheta, force, angular, forceMilli, dtMs) ==
  EulerStep(state,
            state.thetaDot + MulDiv(dtMs, angular, MsPerSec),
            state.xDot + MulDiv(dtMs, xDDot(state, sinTheta, cosTheta, force, angular),
                                MsPerSec),
            forceMilli, dtMs)

\* the equations of motion of simulateStep for given sine and cosine
Moved(state, sinTheta, cosTheta, force, noise, forceMilli, dtMs) ==
  Accelerated(state, sinTheta, cosTheta, force,
              thetaDDot(state, sinTheta, cosTheta, force, noise), forceMilli, dtMs)

\* the body of simulateStep up to the normalisation; floorTilt is 0 in
\* part_001, where cartGravityForce is absent.  force and cartGravityForce
\* enter every equation as their sum.
pendulumDynamics(state, forceMilli, floorTilt, noise, dtMs) ==
  Moved(state, Sin(state.theta + floorTilt), Cos(state.theta + floorTilt),
        forceMilli * MsPerSec + cartGravityForce(floorTilt), noise, forceMilli, dtMs)

\* the end of the track of a pendulum: TRACK_WIDTH / 2 - 0.2
TrackLimit(sm) ==
  (IF sm.name = "HookPendulum" THEN HOOK_TRACK_WIDTH ELSE TRACK_WIDTH) \div 2 - TrackMargin

\* the end of simulateStep in hooks/usePhysicsSimulation.js: beyond the limit
\* the cart is put back on it and its velocity reversed and halved
\*   state.x = Math.sign(state.x) * (TRACK_WIDTH / 2 - 0.2);
\*   state.xDot = -state.xDot * 0.5
Bounced(moved) ==
  IF Abs(moved.x) > TrackLimit(HookPendulum)
  THEN [moved EXCEPT !.x = IF moved.x > 0 THEN TrackLimit(HookPendulum)
                           ELSE -TrackLimit(HookPendulum),
                     !.xDot = RoundDiv(-moved.xDot, 2)]
  ELSE moved

\* what the loop of the standalone stores for the result of simulateStep
\* ('crashed', 'fallen' or null): localFallen = true, setFallen(true),
\* setFailureType(result); part_001 sets state.fallen in simulateStep; the
\* state of hooks/usePhysicsSimulation.js has no force field (kept at 0 here)
Failed(sm, moved, floorTilt) ==
  IF sm.name = "PendulumStandalone"
  THEN IF OffTrack(moved.x)
       THEN [moved EXCEPT !.floorTilt = floorTilt, !.fallen = TRUE,
                          !.failureType = "crashed"]
       ELSE IF Toppled(moved.theta)
       THEN [moved EXCEPT !.floorTilt = floorTilt, !.fallen = TRUE,
                          !.failureType = "fallen"]
       ELSE [moved EXCEPT !.floorTilt = floorTilt]
  ELSE IF sm.name = "HookPendulum"
  THEN Bounced([moved EXCEPT !.fallen = Toppled(moved.theta), !.force = 0])
  ELSE [moved EXCEPT !.fallen = Toppled(moved.theta) \/ OffTrack(moved.x)]

\* simulateStep(force) of part_001 and simulateStep(force, currentFallen,
\* floorTilt) of the standalone
pendulumSimulateStep(sm, state, force, floorTilt, noise) ==
  IF Terminal(state) THEN state
  ELSE Failed(sm, pendulumDynamics(state, force, floorTilt, noise, sm.dtMs), floorTilt)

\* a generator whose impulses all push the same way
OneWayNudge(ctl, time) ==
  IF ctl.disturbanceType # "nudges" THEN 0
  ELSE IF (2 * (time % ctl.nudgePeriodMs)) % ctl.nudgePeriodMs < 2 * NUDGE_IMPULSE_DURATION
  THEN ctl.nudgeAmplitude ELSE 0

\* calculateNudgeForce(time) of the standalone, in millinewtons;
\* nudgePeriodMs = 1000 / nudgeFrequency
calculateNudgeForce(ctl, time) ==
  IF ctl.disturbanceType # "nudges" THEN 0
  ELSE LET timeInPeriod == time % ctl.nudgePeriodMs
           isFirstHalf  == 2 * timeInPeriod < ctl.nudgePeriodMs
           timeInHalf   == IF isFirstHalf THEN 2 * timeInPeriod
                           ELSE 2 * timeInPeriod - ctl.nudgePeriodMs
       IN  IF timeInHalf < 2 * NUDGE_IMPULSE_DURATION
           THEN IF isFirstHalf THEN ctl.nudgeAmplitude ELSE -ctl.nudgeAmplitude
           ELSE 0

\* calculateTiltAngle(time) of the standalone, in micro-radians;
\* tiltAmplitude in degrees, tiltPeriodMs = 1000 / tiltFrequency
calculateTiltAngle(ctl, time) ==
  IF ctl.disturbanceType # "tilts" THEN 0
  ELSE MulMicro(MulDiv(ctl.tiltAmplitude, PI, 180),
                Sin(MulDiv(time % ctl.tiltPeriodMs, 2 * PI, ctl.tiltPeriodMs)))

\* computePIDForce(): error = state.theta; the PID's output plus the position
\* feedback, clamped
computePIDForce(sm, state, controller, gains) ==
  LET r == Compute(sm.pid, controller, state.theta, gains, sm.dtMs)
      positionForce == MulDiv(PositionGain, state.x, MsPerSec)
                       + MulDiv(VelocityGain, state.xDot, MsPerSec)
  IN  [state |-> r.state, result |-> r.result,
       totalForce |-> Clamp(r.result.output + positionForce,
                            -ForceLimit * MsPerSec, ForceLimit * MsPerSec)]

\* the body of the while loop in a pendulum's animation loop.  part_001:
\*   force = controlMode === 'pid' ? computePIDForce() : userInput * 30;
\*   force += nudgeForce; simulateStep(force)
\* the standalone:
\*   force = computePIDForce().totalForce + calculateNudgeForce(state.time);
\*   simulateStep(force, localFallen, calculateTiltAngle(state.time))
\* simulateStep draws Math.random() once, after its test of the flag
pendulumIterate(sm, w, ctl) ==
  LET r      == computePIDForce(sm, w.plant, w.pid, ctl.pidGains)
      usePid == sm.name = "PendulumStandalone" \/ PidSelected(ctl)
      force  == (IF usePid THEN r.totalForce ELSE ManualInput(sm, ctl.userInput))
                + (IF sm.name = "PendulumStandalone"
                   THEN calculateNudgeForce(ctl, w.plant.time) ELSE ctl.nudgeForce)
      floorTilt == IF sm.name = "PendulumStandalone"
                   THEN calculateTiltAngle(ctl, w.plant.time) ELSE 0
  IN  [plant |-> pendulumSimulateStep(sm, w.plant, force, floorTilt,
                                      Symmetric(w.rng, NOISE_AMPLITUDE)),
       pid |-> IF usePid THEN r.state ELSE w.pid,
       res |-> IF usePid THEN r.result ELSE w.res,
       input |-> force,
       rng |-> IF Terminal(w.plant) THEN w.rng ELSE NextRandom(w.rng)]

----------------------------------------------------------------------------
(* hooks/usePhysicsSimulation.js: the loop as a hook, with its defaults     *)
(* dt = 0.001 and timeScale = 1; no component of the repository calls it.   *)

Hook ==
  [name |-> "Hook", plant |-> "hook", dtMs |-> 1, timeScale |-> 1, maxInput |-> 0,
   pid |-> [kind |-> "utils", integralMin |-> -Infinity, integralMax |-> Infinity,
            derivativeWindowSize |-> 0, dtMs |-> 1],
   defaultGains |-> [kp |-> 0, ki |-> 0, kd |-> 0]]

\* stateRef = useRef({ time: 0, ...initialState }), initialState = {}
hookInitialState == [time |-> 0]

\* the body of the hook's while loop: onPhysicsStep(stateRef.current, dt), a
\* callback of the caller's that is absent here; stateRef.current.time += dt
hookIterate(sm, w, ctl) == [w EXCEPT !.plant.time = @ + sm.dtMs]

----------------------------------------------------------------------------
(* The animation loop's while loop, for any simulator                      *)

\* one pass of the while loop of the mounted simulator
Iterate(sm, w, ctl) ==
  CASE sm.plant = "hook"     -> hookIterate(sm, w, ctl)
    [] sm.plant = "tub"      -> tubIterate(sm, w, ctl)
    [] sm.plant = "drone"    -> droneIterate(sm, w, ctl)
    [] sm.plant = "pendulum" -> pendulumIterate(sm, w, ctl)

\* n passes of the while loop under the same React state.  The passes are
\* split in halves to bound the depth of the evaluation, and the first half is
\* looked at before the second starts because the evaluation is lazy; time
\* never runs backwards, so the comparison always holds.
RECURSIVE RunSteps(_, _, _, _)
RunSteps(sm, w, ctl, n) ==
  IF n = 0 THEN w
  ELSE IF n = 1 THEN Iterate(sm, w, ctl)
  ELSE LET half == RunSteps(sm, w, ctl, n \div 2)
       IN  IF half.plant.time >= w.plant.time
           THEN RunSteps(sm, half, ctl, n - (n \div 2))
           ELSE half

\* the 50 of Math.min(currentTime - lastTime, 50), in milliseconds
StallCapMs == 50

\* the passes of one frame after a stall: 50 ms * timeScale / (dt * 1000)
StallSteps(sm) == (StallCapMs * sm.timeScale) \div sm.dtMs

\* a run of whole frames, each after a stall, under the same React state
RunFrames(sm, w, ctl, frames) == RunSteps(sm, w, ctl, frames * StallSteps(sm))

\* the world after construction or resetSimulation
InitialWorld(sm) ==
  [plant |-> CASE sm.plant = "hook"     -> hookInitialState
                [] sm.plant = "tub"      -> tubInitialState
                [] sm.plant = "drone"    -> droneInitialState(sm)
                [] sm.plant = "pendulum" -> pendulumInitialState(sm, InitialTheta),
   pid |-> InitialState(sm.pid.kind), res |-> NoResult, input |-> 0, rng |-> 0]

----------------------------------------------------------------------------
(* One frame of the animation loop.  Wall-clock times and the accumulator  *)
(* are in microseconds, so that a frame delta need not be a whole number   *)
(* of milliseconds.                                                        *)

\* deltaTime = Math.min(currentTime - lastTime, 50)
UncappedDelta(delta) == delta

HalfCappedDelta(delta) == MathMin(delta, (StallCapMs \div 2) * MsPerSec)

CappedDelta(delta) == MathMin(delta, StallCapMs * MsPerSec)

\* dt * 1000, the simulated time of one pass
StepTime(sm) == sm.dtMs * MsPerSec

\* accumulator += deltaTime * timeScale
Accumulated(sm, accumulator, delta) == accumulator + CappedDelta(delta) * sm.timeScale

\* the passes of while (accumulator >= dt * 1000) { ...; accumulator -= dt * 1000 }
PassesDue(sm, accumulator) ==
  IF accumulator >= StepTime(sm) THEN accumulator \div StepTime(sm) ELSE 0

\* the while loop of a frame, entered with the accumulator already increased
FramePasses(sm, w, ctl, accumulator) ==
  [w |-> RunSteps(sm, w, ctl, PassesDue(sm, accumulator)),
   accumulator |-> accumulator - PassesDue(sm, accumulator) * StepTime(sm),
   passes |-> PassesDue(sm, accumulator)]

\* loop(currentTime) with delta = currentTime - lastTime: the world and the
\* accumulator it leaves, and the passes it made
Frame(sm, w, ctl, accumulator, delta) ==
  FramePasses(sm, w, ctl, Accumulated(sm, accumulator, delta))

----------------------------------------------------------------------------
(* The hot tub's step, driven pass by pass                                 *)

\* passes of the while loop in one behaviour
MaxTubSteps == 2

\* temperatures (micro-degrees C) the water is at when the passes start: the
\* limits; the initial 38; 36, where the default gains of HotTub.jsx ask for
\* 5 kW; 20, the equilibrium of the initial ambient with the heater off; and
\* the values one pass short of a limit that 77738 passes at full power in
\* ambient 34, and 196986 passes with the heater off in ambient -10, reach
\* from 38
TubTemperatures ==
  {MIN_TEMP * Unit, 17, 20 * Unit, 36 * Unit, InitialTemperature * Unit,
   49999992, MAX_TEMP * Unit}

\* ambients and a setpoint that changeAmbient and changeSetpoint draw with
\* Math.random(), which never returns 1
AmbientSet == {AMBIENT_MIN * Unit, (AMBIENT_MAX - 1) * Unit}

SetpointSet == {SETPOINT_MIN * Unit}

\* userInput of the manual slider (hundredths), in thousandths
UserInputSet == {0, 330, 1000}

\* React state the loop reads: PID with the default gains, or manual
ControlSet(sm) ==
  {[controlMode |-> "pid", userInput |-> 0, pidGains |-> sm.defaultGains]}
    \cup {[controlMode |-> "user", userInput |-> u, pidGains |-> sm.defaultGains] :
            u \in UserInputSet}

InitTub ==
  /\ sim \in {HotTub, LegacyHotTub}
  /\ cfg = sim.pid
  /\ pid = InitialState(cfg.kind)
  /\ res = NoResult
  /\ \E t \in TubTemperatures : plant = [tubInitialState EXCEPT !.temperature = t]
  /\ hist = [op |-> "init", steps |-> 0, prev |-> tubInitialState, input |-> 0]
  /\ loop = NoLoop
  /\ rng = 0

\* one pass of the while loop of the animation loop
TubStep ==
  /\ hist.steps < MaxTubSteps
  /\ \E ctl \in ControlSet(sim) :
       \E w \in {Iterate(sim, [plant |-> plant, pid |-> pid, res |-> res, rng |-> rng], ctl)} :
           /\ plant' = w.plant
           /\ pid' = w.pid
           /\ res' = w.res
           /\ hist' = [op |-> "step", steps |-> hist.steps + 1, prev |-> plant,
                       input |-> w.input]
  /\ UNCHANGED <<cfg, sim, loop, rng>>

\* changeSetpoint(): a random setpoint
TubChangeSetpoint ==
  /\ \E newSetpoint \in SetpointSet : plant' = [plant EXCEPT !.setpoint = newSetpoint]
  /\ hist' = [hist EXCEPT !.op = "changeSetpoint"]
  /\ UNCHANGED <<cfg, pid, res, sim, loop, rng>>

\* changeAmbient(): a random ambient
TubChangeAmbient ==
  /\ \E newAmbient \in AmbientSet : plant' = [plant EXCEPT !.ambient = newAmbient]
  /\ hist' = [hist EXCEPT !.op = "changeAmbient"]
  /\ UNCHANGED <<cfg, pid, res, sim, loop, rng>>

\* resetSimulation(): the initial state again, the controller reset
TubReset ==
  /\ plant' = tubInitialState
  /\ pid' = InitialState(cfg.kind)
  /\ hist' = [hist EXCEPT !.op = "reset"]
  /\ UNCHANGED <<cfg, res, sim, loop, rng>>

NextTub == TubStep \/ TubChangeSetpoint \/ TubChangeAmbient \/ TubReset

SpecTub == InitTub /\ [][NextTub]_vars

----------------------------------------------------------------------------
\* E = clamp(A + P / heatLossCoefficient, minTemp, maxTemp): the temperature
\* at which the heat loss to ambient A equals the heater power P
ThermalEquilibrium(ambient, power) ==
  ClampTemperature(ambient + MulDiv(MsPerSec, power, HEAT_LOSS_COEFFICIENT))

(* C8: thermal steady state.  For a step of the hot tub with ambient A and  *)
(* an actuation P within [0, MAX_HEATER_POWER], and E the equilibrium of A  *)
(* and P clamped to [MIN_TEMP, MAX_TEMP]: a temperature equal to E stays E; *)
(* any other temperature ends between where it was and E, never beyond E,   *)
(* and strictly closer to E when it was a degree or more away.  A = 20 and  *)
(* P = 5000 give E = 30.                                                    *)
ThermalSteadyState ==
  /\ ThermalEquilibrium(20 * Unit, 5000 * MsPerSec) = 30 * Unit
  /\ (/\ hist.op = "step"
      /\ hist.input >= MIN_HEATER_POWER * MsPerSec
      /\ hist.input <= MAX_HEATER_POWER * MsPerSec)
       => LET E  == ThermalEquilibrium(hist.prev.ambient, hist.input)
              T0 == hist.prev.temperature
              T1 == plant.temperature
          IN  /\ T0 = E => T1 = E
              /\ T0 <= E => (T0 <= T1 /\ T1 <= E)
              /\ T0 >= E => (E <= T1 /\ T1 <= T0)
              /\ Abs(E - T0) >= Unit => Abs(E - T1) < Abs(E - T0)

\* a second pass, in which the PID asks for 5 kW to within a watt in ambient
\* 20: the water, above E, has cooled and is still above E
ThermalSteadyStateWitness ==
  /\ hist.op = "step"
  /\ hist.steps = 2
  /\ hist.prev.ambient = 20 * Unit
  /\ hist.input > 5000 * MsPerSec - MsPerSec
  /\ hist.input <= 5000 * MsPerSec
  /\ ThermalEquilibrium(hist.prev.ambient, hist.input) < plant.temperature
  /\ plant.temperature < hist.prev.temperature

(* C9: thermal-tank bounds.  After every step of the hot tub, whatever the  *)
(* raw actuation, the recorded heater power is within [0, MAX_HEATER_POWER] *)
(* and the temperature within [MIN_TEMP, MAX_TEMP]; the step is never       *)
(* refused: the hot tub has no terminal flag and its time advances by DT.   *)
ThermalBounds ==
  hist.op = "step"
    => /\ MIN_HEATER_POWER * MsPerSec <= plant.heaterPower
       /\ plant.heaterPower <= MAX_HEATER_POWER * MsPerSec
       /\ MIN_TEMP * Unit <= plant.temperature
       /\ plant.temperature <= MAX_TEMP * Unit
       /\ plant.time = hist.prev.time + HotTubDtMs
       /\ DOMAIN plant = DOMAIN tubInitialState

\* a pass at the lower temperature limit in which the PID asked for more than
\* the heater has
ThermalBoundsWitness ==
  /\ hist.op = "step"
  /\ hist.prev.temperature = MIN_TEMP * Unit
  /\ hist.input > MAX_HEATER_POWER * MsPerSec
  /\ plant.heaterPower = MAX_HEATER_POWER * MsPerSec
  /\ plant.temperature > MIN_TEMP * Unit

----------------------------------------------------------------------------
(* The drones and the pendulums, driven pass by pass                       *)

\* passes of the while loop in one behaviour, and clicks on the buttons (Reset,
\* New Setpoint, Add Weight, Reset Integral)
MaxPlantSteps == 3
MaxClicks == 2

\* the standalone drone with the mass slider (droneMass) at its minimum
LightDroneStandalone == [DroneStandalone EXCEPT !.mass = MIN_MASS]

\* React state the loop reads, for each simulator: the mode, the manual
\* slider at its ends, gains the sliders offer, the disturbance
PlantControlSet(sm) ==
  CASE sm.name \in {"Drone", "LegacyDrone"} ->
         {[controlMode |-> "pid", userInput |-> 0, pidGains |-> sm.defaultGains]}
           \cup {[controlMode |-> "user", userInput |-> u, pidGains |-> sm.defaultGains] :
                   u \in {-MsPerSec, MsPerSec}}
    [] sm.name = "DroneStandalone" ->
         {[controlMode |-> "pid", pidGains |-> g, setpointMode |-> "constant",
           constantSetpoint |-> (MAX_ALTITUDE - 5) * Unit] :
            g \in {sm.defaultGains, [kp |-> 200, ki |-> 0, kd |-> 0]}}
    [] sm.name = "Pendulum" ->
         {[controlMode |-> "pid", userInput |-> 0, pidGains |-> sm.defaultGains,
           nudgeForce |-> f] : f \in {0, NudgeForce * MsPerSec}}
           \cup {[controlMode |-> "user", userInput |-> MsPerSec,
                  pidGains |-> sm.defaultGains, nudgeForce |-> 0]}
    [] sm.name = "PendulumStandalone" ->
         {[controlMode |-> "pid", pidGains |-> [kp |-> 0, ki |-> 0, kd |-> 0],
           disturbanceType |-> "off"],
          [controlMode |-> "pid", pidGains |-> [kp |-> 500, ki |-> 200, kd |-> 0],
           disturbanceType |-> "off"],
          [controlMode |-> "pid", pidGains |-> sm.defaultGains,
           disturbanceType |-> "nudges", nudgeAmplitude |-> 30 * MsPerSec,
           nudgePeriodMs |-> 2000]}

\* where the passes start: each simulator as constructed, and each simulator
\* one pass before its flight or its balance ends, after the given number of
\* passes from construction under the given React state:
\*   the drones of HotTub.jsx and drone_simulator.jsx with the manual slider at
\*   either end (ceiling and floor at pass 632);
\*   the standalone drone of mass MIN_MASS with kp = 200 and the setpoint at 95
\*   (ceiling at pass 227);
\*   the pendulum of part_001 under its default gains (falls at pass 587);
\*   the standalone pendulum with all gains 0 (falls at pass 908) and with
\*   kp = 500, ki = 200, kd = 0 (leaves the track at pass 1531)
PlantRuns ==
  {[sm |-> sm, passes |-> 0, ctl |-> CHOOSE c \in PlantControlSet(sm) : TRUE] :
     sm \in {Drone, LegacyDrone, DroneStandalone, LightDroneStandalone,
             Pendulum, PendulumStandalone}}
  \cup {[sm |-> sm, passes |-> 631,
         ctl |-> [controlMode |-> "user", userInput |-> u, pidGains |-> sm.defaultGains]] :
          sm \in {Drone, LegacyDrone}, u \in {-MsPerSec, MsPerSec}}
  \cup {[sm |-> LightDroneStandalone, passes |-> 226,
         ctl |-> [controlMode |-> "pid", pidGains |-> [kp |-> 200, ki |-> 0, kd |-> 0],
                  setpointMode |-> "constant",
                  constantSetpoint |-> (MAX_ALTITUDE - 5) * Unit]],
        [sm |-> Pendulum, passes |-> 586,
         ctl |-> [controlMode |-> "pid", userInput |-> 0,
                  pidGains |-> Pendulum.defaultGains, nudgeForce |-> 0]],
        [sm |-> PendulumStandalone, passes |-> 907,
         ctl |-> [controlMode |-> "pid", pidGains |-> [kp |-> 0, ki |-> 0, kd |-> 0],
                  disturbanceType |-> "off"]],
        [sm |-> PendulumStandalone, passes |-> 1530,
         ctl |-> [controlMode |-> "pid", pidGains |-> [kp |-> 500, ki |-> 200, kd |-> 0],
                  disturbanceType |-> "off"]]}

\* the simulator and the world each run reaches
PlantSeeds(runs) ==
  {[sm |-> r.sm, w |-> RunSteps(r.sm, InitialWorld(r.sm), r.ctl, r.passes)] :
     r \in runs}

InitPlant ==
  \E seed \in PlantSeeds(PlantRuns) :
    /\ sim = seed.sm
    /\ cfg = seed.sm.pid
    /\ plant = seed.w.plant
    /\ pid = seed.w.pid
    /\ res = seed.w.res
    /\ rng = seed.w.rng
    /\ hist = [op |-> "init", steps |-> 0, clicks |-> 0, prev |-> seed.w.plant,
               input |-> 0]
    /\ loop = NoLoop

\* one pass of the while loop of the animation loop
PlantStep ==
  /\ hist.steps < MaxPlantSteps
  /\ \E ctl \in PlantControlSet(sim) :
       \E w \in {Iterate(sim, [plant |-> plant, pid |-> pid, res |-> res, rng |-> rng], ctl)} :
           /\ plant' = w.plant
           /\ pid' = w.pid
           /\ res' = w.res
           /\ rng' = w.rng
           /\ hist' = [hist EXCEPT !.op = "step", !.steps = @ + 1, !.prev = plant,
                                    !.input = w.input]
  /\ UNCHANGED <<cfg, sim, loop>>

\* resetSimulation(): the initial state again (a pendulum with a random theta,
\* the standalone drone with calculateSetpoint(0)), the controller reset
PlantReset ==
  /\ hist.clicks < MaxClicks
  /\ \E ctl \in PlantControlSet(sim) :
       plant' = CASE sim.plant = "pendulum" ->
                       pendulumInitialState(sim, Symmetric(rng, ResetThetaAmplitude))
                  [] sim.name = "DroneStandalone" ->
                       [droneInitialState(sim) EXCEPT !.setpoint = calculateSetpoint(ctl, 0)]
                  [] OTHER -> droneInitialState(sim)
  /\ rng' = IF sim.plant = "pendulum" THEN NextRandom(rng) ELSE rng
  /\ pid' = InitialState(cfg.kind)
  /\ hist' = [hist EXCEPT !.op = "reset", !.clicks = @ + 1]
  /\ UNCHANGED <<cfg, res, sim, loop>>

\* changeSetpoint() of the drones of HotTub.jsx and drone_simulator.jsx: a
\* random setpoint in [SETPOINT_MIN, SETPOINT_MAX), the integral cleared
PlantChangeSetpoint ==
  /\ sim.name \in {"Drone", "LegacyDrone"}
  /\ hist.clicks < MaxClicks
  /\ ~plant.crashed
  /\ \E newSetpoint \in {DroneSetpointMin * Unit, (DroneSetpointMax - 1) * Unit} :
       plant' = [plant EXCEPT !.setpoint = newSetpoint]
  /\ pid' = utilsResetIntegral(pid)
  /\ hist' = [hist EXCEPT !.op = "changeSetpoint", !.clicks = @ + 1]
  /\ UNCHANGED <<cfg, res, sim, loop, rng>>

\* addWeight() of the same two drones
PlantAddWeight ==
  /\ sim.name \in {"Drone", "LegacyDrone"}
  /\ hist.clicks < MaxClicks
  /\ ~plant.crashed
  /\ plant' = IF sim.name = "LegacyDrone"
              THEN [plant EXCEPT !.mass = @ + MASS_INCREMENT, !.massAdded = @ + 1]
              ELSE [plant EXCEPT !.mass = @ + MASS_INCREMENT]
  /\ hist' = [hist EXCEPT !.op = "addWeight", !.clicks = @ + 1]
  /\ UNCHANGED <<cfg, pid, res, sim, loop, rng>>

\* handleResetIntegral() of the standalone simulators
PlantResetIntegral ==
  /\ sim.name \in {"DroneStandalone", "PendulumStandalone"}
  /\ hist.clicks < MaxClicks
  /\ pid' = windowedResetIntegral(pid)
  /\ hist' = [hist EXCEPT !.op = "resetIntegral", !.clicks = @ + 1]
  /\ UNCHANGED <<cfg, res, sim, plant, loop, rng>>

\* the Mass slider of the standalone drone: setDroneMass(value), then the
\* effect on [droneMass] writes stateRef.current.mass = droneMass
PlantSetMass ==
  /\ sim.name = "DroneStandalone"
  /\ hist.clicks < MaxClicks
  /\ \E droneMass \in {MIN_MASS, DEFAULT_MASS} \ {sim.mass} :
       /\ sim' = [sim EXCEPT !.mass = droneMass]
       /\ plant' = [plant EXCEPT !.mass = droneMass]
  /\ hist' = [hist EXCEPT !.op = "setMass", !.clicks = @ + 1]
  /\ UNCHANGED <<cfg, pid, res, loop, rng>>

NextPlant ==
  \/ PlantStep \/ PlantReset \/ PlantChangeSetpoint \/ PlantAddWeight
  \/ PlantResetIntegral \/ PlantSetMass

SpecPlant == InitPlant /\ [][NextPlant]_vars

----------------------------------------------------------------------------
\* the terminal flag of a plant state, and the actuation it records
Flagged(state) ==
  \/ "crashed" \in DOMAIN state /\ state.crashed
  \/ "fallen" \in DOMAIN state /\ state.fallen

Recorded(state) == IF "thrust" \in DOMAIN state THEN state.thrust ELSE state.force

(* C4: terminal stickiness.  Once a plant's terminal flag (crashed, fallen) *)
(* is true, a further pass of the loop, whatever actuation it passes to the *)
(* step, leaves every field of the plant state as it was; and the flag goes *)
(* from true to false in a reset only.                                      *)
TerminalStickiness ==
  /\ [](hist.op = "step" /\ Flagged(hist.prev) => plant = hist.prev)
  /\ [][Flagged(plant) /\ ~Flagged(plant') => hist'.op = "reset"]_vars

\* the second pass after the terminal one, passing an actuation other than
\* the recorded one
TerminalStickinessWitness ==
  /\ hist.op = "step"
  /\ hist.steps = MaxPlantSteps
  /\ Flagged(hist.prev)
  /\ hist.input # Recorded(hist.prev)
  /\ plant = hist.prev

(* C10: thrust-body bounds.  In every reachable state of every drone, the   *)
(* recorded thrust lies in [minThrust, maxThrust], the altitude lies in     *)
(* [0, MAX_ALTITUDE], and crashed implies velocity = 0.                     *)
ThrustBodyBounds ==
  sim.plant = "drone" =>
    /\ plant.thrust >= sim.minThrust
    /\ plant.thrust <= sim.maxThrust
    /\ plant.altitude >= CRASH_FLOOR * Unit
    /\ plant.altitude <= MAX_ALTITUDE * Unit
    /\ plant.crashed => plant.velocity = 0

\* the pass in which a moving drone crashes while the PID asks for less than
\* the minimum thrust
ThrustBodyBoundsWitness ==
  /\ sim.plant = "drone"
  /\ hist.op = "step"
  /\ ~hist.prev.crashed
  /\ hist.prev.velocity # 0
  /\ hist.input < sim.minThrust
  /\ plant.crashed
  /\ plant.thrust = sim.minThrust

----------------------------------------------------------------------------
(* The animation loops, driven frame by frame: the hook, the hot tub of    *)
(* HotTub.jsx and the two standalone simulators                            *)

\* frames in one behaviour, then clicks on Start and Stop and changes of the
\* React state the loop's effect depends on
MaxFrames == 3
MaxLoopClicks == 2

\* the frame delta of a 60 Hz display, in milliseconds, and the microseconds
\* by which a measured delta exceeds it
FrameMs == 16
JitterTime == 700

\* simulated time between two plot samples: 0.05 s, and 60 s in the hot tub
PlotIntervalMs == 50
TubPlotInterval == 60

\* currentTime - lastTime of a frame: a whole frame, a frame and a fraction
\* of a millisecond, and a second's stall
FrameDeltas == {FrameMs * MsPerSec, FrameMs * MsPerSec + JitterTime, MsPerSec * MsPerSec}

LoopSims == {Hook, HotTub, DroneStandalone, PendulumStandalone}

\* the React state of a component after construction: automatic mode, the
\* default gains, a constant setpoint of 50 m, no disturbance
InitialControl(sm) ==
  CASE sm.name = "Hook" -> [controlMode |-> "pid"]
    [] sm.name = "HotTub" ->
         [controlMode |-> "pid", userInput |-> 0, pidGains |-> sm.defaultGains]
    [] sm.name = "DroneStandalone" ->
         [controlMode |-> "pid", pidGains |-> sm.defaultGains,
          setpointMode |-> "constant", constantSetpoint |-> InitialAltitude * Unit]
    [] sm.name = "PendulumStandalone" ->
         [controlMode |-> "pid", pidGains |-> sm.defaultGains, disturbanceType |-> "off"]

\* React state the loop's closure holds: the initial state, and that after a
\* change of mode, setpoint or gains
LoopControlSet(sm) ==
  {InitialControl(sm)} \cup
  CASE sm.name = "Hook" -> {}
    [] sm.name = "HotTub" ->
         {[controlMode |-> "user", userInput |-> 330, pidGains |-> sm.defaultGains]}
    [] sm.name = "DroneStandalone" ->
         {[InitialControl(sm) EXCEPT !.constantSetpoint = (MAX_ALTITUDE - 5) * Unit]}
    [] sm.name = "PendulumStandalone" ->
         {[InitialControl(sm) EXCEPT !.pidGains = [kp |-> 500, ki |-> 200, kd |-> 0]]}

\* the world after resetSimulation()
resetSimulation(sm, w, ctl) ==
  CASE sm.plant = "pendulum" ->
         [w EXCEPT !.plant = pendulumInitialState(sm, Symmetric(w.rng, ResetThetaAmplitude)),
                   !.pid = InitialState(sm.pid.kind),
                   !.rng = NextRandom(w.rng)]
    [] sm.name = "DroneStandalone" ->
         [w EXCEPT !.plant = [droneInitialState(sm) EXCEPT
                                !.setpoint = calculateSetpoint(ctl, 0)],
                   !.pid = InitialState(sm.pid.kind)]
    [] OTHER ->
         [w EXCEPT !.plant = InitialWorld(sm).plant, !.pid = InitialState(sm.pid.kind)]

\* handleToggle of HotTub.jsx resets before it starts, handleStart of the
\* standalone simulators resets after a crash or a fall, a caller of the hook
\* sets isRunning only, and so does the button of the InvertedPendulumSimulator
\* of hooks/usePhysicsSimulation.js: onClick={() => setIsRunning(!isRunning)}
ResetsOnStart(sm, w) ==
  \/ sm.name = "HotTub"
  \/ sm.name \in {"DroneStandalone", "PendulumStandalone"} /\ Terminal(w.plant)

Started(sm, w, ctl) ==
  IF ResetsOnStart(sm, w) THEN resetSimulation(sm, w, ctl) ELSE w

\* a cleanup that cancels nothing
LeakyAnimationFrame(lp, call) ==
  CASE call = "request" ->
         [lp EXCEPT !.pending = @ \cup {lp.requests + 1},
                    !.animationRef = lp.requests + 1, !.requests = @ + 1]
    [] call = "fire" ->
         [lp EXCEPT !.pending = @ \ {id \in @ : \A other \in @ : id <= other}]
    [] OTHER -> lp

\* the animation frames of the window: pending holds the ids of the callbacks
\* requested and neither run nor cancelled, requests counts the ids given out
\*   request: animationRef.current = requestAnimationFrame(loop)
\*   cancel:  if (animationRef.current) cancelAnimationFrame(animationRef.current)
\*   fire:    the browser takes the callback requested first off its list and
\*            calls it
animationFrame(lp, call) ==
  CASE call = "request" ->
         [lp EXCEPT !.pending = @ \cup {lp.requests + 1},
                    !.animationRef = lp.requests + 1, !.requests = @ + 1]
    [] call = "cancel" -> [lp EXCEPT !.pending = @ \ {lp.animationRef}]
    [] call = "fire" ->
         [lp EXCEPT !.pending = @ \ {id \in @ : \A other \in @ : id <= other}]
    [] OTHER -> lp

\* the effect runs again with isRunning true: the cleanup of its last run
\* cancels the frame of animationRef, then the locals start over (accumulator
\* = 0, lastPlotTime = 0, errorAccumulator = cumulativeError; the hook keeps
\* lastPlotTime in a ref) and the first frame is requested
EffectRun(sm, lp, ctl) ==
  animationFrame(
    animationFrame([lp EXCEPT !.accumulator = 0,
                              !.lastPlotTime = IF sm.name = "Hook" THEN @ ELSE 0,
                              !.errorAccumulator = lp.cumulativeError,
                              !.ctl = ctl], "cancel"),
    "request")

\* const error = state.setpoint - state.altitude
DroneError(state) == state.setpoint - state.altitude

\* the sum of error * DT the standalone drone's loop adds to errorAccumulator
\* in n passes
RECURSIVE ErrorOver(_, _, _, _)
ErrorOver(sm, w, ctl, n) ==
  IF n = 0 THEN 0
  ELSE IF n = 1 THEN MulDiv(sm.dtMs, DroneError(Iterate(sm, w, ctl).plant), MsPerSec)
  ELSE ErrorOver(sm, w, ctl, n \div 2)
       + ErrorOver(sm, RunSteps(sm, w, ctl, n \div 2), ctl, n - (n \div 2))

\* state.time - lastPlotTime >= 0.05 (60 in the hot tub); the standalone
\* simulators also ask for latestPidResult, a pass made in this frame
PlotDue(sm, lp, f) ==
  /\ f.w.plant.time - lp.lastPlotTime
       >= (IF sm.plant = "tub" THEN TubPlotInterval * MsPerSec ELSE PlotIntervalMs)
  /\ sm.name \in {"DroneStandalone", "PendulumStandalone"} => f.passes > 0

\* the loop's locals and React state once the frame's updates are committed:
\* setCumulativeError(errorAccumulator) with a new value runs the drone's
\* effect again, setIsRunning(false) ends the standalone pendulum's loop
Plotted(sm, lp, f, errorAccumulator) ==
  IF ~PlotDue(sm, lp, f)
  THEN [lp EXCEPT !.accumulator = f.accumulator, !.errorAccumulator = errorAccumulator]
  ELSE IF sm.name = "DroneStandalone" /\ errorAccumulator # lp.cumulativeError
  THEN EffectRun(sm, [lp EXCEPT !.cumulativeError = errorAccumulator], lp.ctl)
  ELSE [lp EXCEPT !.accumulator = f.accumulator, !.errorAccumulator = errorAccumulator,
                  !.lastPlotTime = f.w.plant.time]

Committed(sm, w, lp, f) ==
  animationFrame(
    [Plotted(sm, lp, f,
             IF sm.name = "DroneStandalone"
             THEN lp.errorAccumulator + ErrorOver(sm, w, lp.ctl, f.passes)
             ELSE lp.errorAccumulator)
       EXCEPT !.isRunning = ~(sm.name = "PendulumStandalone" /\ Terminal(f.w.plant))],
    IF sm.name = "PendulumStandalone" /\ Terminal(f.w.plant) THEN "cancel" ELSE "keep")

\* the frame of the InvertedPendulumSimulator of hooks/usePhysicsSimulation.js:
\* a pass records a plot sample when floor(time * 20) changed in it, and
\* setBestTime(state.time) of a pass on a fallen pendulum runs the effect
\* again, since bestTime is one of its dependencies
hookPendulumFramed(sm, w, lp, f) ==
  [w |-> f.w,
   loop |-> IF f.passes > 0 /\ Terminal(f.w.plant) /\ f.w.plant.time > lp.bestTime
            THEN EffectRun(sm, [lp EXCEPT !.bestTime = f.w.plant.time], lp.ctl)
            ELSE [lp EXCEPT !.accumulator = f.accumulator],
   passes |-> f.passes,
   sampled |-> /\ f.passes > 0
               /\ \/ f.w.plant.time \div PlotIntervalMs # w.plant.time \div PlotIntervalMs
                  \/ f.w.plant.time % PlotIntervalMs = 0]

\* loop(currentTime) with currentTime - lastTime = delta: the world, the loop
\* and the passes made
LoopFramed(sm, w, lp, f) ==
  IF sm.name = "HookPendulum" THEN hookPendulumFramed(sm, w, lp, f)
  ELSE [w |-> f.w, loop |-> Committed(sm, w, lp, f), passes |-> f.passes,
        sampled |-> PlotDue(sm, lp, f)]

\* the browser calls the callback, whose last statement requests the next frame
loopFrame(sm, w, lp, delta) ==
  LoopFramed(sm, w, animationFrame(animationFrame(lp, "fire"), "request"),
             Frame(sm, w, lp.ctl, lp.accumulator, delta))

NoSnapshot == [passes |-> 0]

\* the plot data: the simulated time of the sample recorded last and its
\* distance from the sample before it (-1: none); resetSimulation empties it
NoSamples == [sample |-> -1, gap |-> -1]

KeptSamples == [sample |-> hist.sample, gap |-> hist.gap]

\* the frame time of the run since the last Start, capped and scaled, in
\* microseconds, and the simulated time the run started at
KeptClock == [elapsed |-> hist.elapsed, origin |-> hist.origin]

Clocked(sm, delta) ==
  [elapsed |-> hist.elapsed + CappedDelta(delta) * sm.timeScale, origin |-> hist.origin]

Sampled(sampled, time) ==
  IF ~sampled THEN KeptSamples
  ELSE [sample |-> time, gap |-> IF hist.sample < 0 THEN -1 ELSE time - hist.sample]

Unchained == [chain |-> 0, chainPasses |-> 0, snapshot |-> NoSnapshot]

InitLoop ==
  /\ sim \in LoopSims
  /\ cfg = sim.pid
  /\ plant = InitialWorld(sim).plant
  /\ pid = InitialWorld(sim).pid
  /\ res = NoResult
  /\ rng = 0
  /\ loop = [isRunning |-> FALSE, accumulator |-> 0, lastPlotTime |-> 0,
             errorAccumulator |-> 0, cumulativeError |-> 0, ctl |-> InitialControl(sim),
             pending |-> {}, animationRef |-> 0, requests |-> 0]
  /\ hist = [op |-> "init", frames |-> 0, clicks |-> 0, passes |-> 0, delta |-> 0,
             before |-> 0] @@ Unchained @@ NoSamples @@ [elapsed |-> 0, origin |-> 0]

\* a click on Start: the reset it may make, then the effect runs
LoopStart ==
  /\ ~loop.isRunning
  /\ hist.clicks < MaxLoopClicks
  /\ \E w \in {[plant |-> plant, pid |-> pid, res |-> res, rng |-> rng]} :
       /\ plant' = Started(sim, w, loop.ctl).plant
       /\ pid' = Started(sim, w, loop.ctl).pid
       /\ rng' = Started(sim, w, loop.ctl).rng
       /\ loop' = [EffectRun(sim, [loop EXCEPT !.cumulativeError =
                                     IF ResetsOnStart(sim, w) THEN 0 ELSE @], loop.ctl)
                     EXCEPT !.isRunning = TRUE]
  /\ hist' = [op |-> "start", frames |-> hist.frames, clicks |-> hist.clicks + 1,
              passes |-> 0, delta |-> 0, before |-> 0] @@ Unchained
             @@ (IF ResetsOnStart(sim, [plant |-> plant]) THEN NoSamples ELSE KeptSamples)
             @@ [elapsed |-> 0, origin |-> plant'.time]
  /\ UNCHANGED <<cfg, res, sim>>

\* a click on Stop: the effect's cleanup cancels the frame
LoopStop ==
  /\ loop.isRunning
  /\ hist.clicks < MaxLoopClicks
  /\ loop' = animationFrame([loop EXCEPT !.isRunning = FALSE], "cancel")
  /\ hist' = [op |-> "stop", frames |-> hist.frames, clicks |-> hist.clicks + 1,
              passes |-> 0, delta |-> 0, before |-> 0] @@ Unchained @@ KeptSamples
             @@ KeptClock
  /\ UNCHANGED <<cfg, pid, res, sim, plant, rng>>

\* a dependency of the effect changes while the loop runs (the gains, the mode,
\* the manual slider, the setpoint): the effect runs again with a new closure
LoopRestart ==
  /\ loop.isRunning
  /\ hist.clicks < MaxLoopClicks
  /\ \E ctl \in LoopControlSet(sim) \ {loop.ctl} : loop' = EffectRun(sim, loop, ctl)
  /\ hist' = [op |-> "restart", frames |-> hist.frames, clicks |-> hist.clicks + 1,
              passes |-> 0, delta |-> 0, before |-> 0] @@ Unchained @@ KeptSamples
             @@ KeptClock
  /\ UNCHANGED <<cfg, pid, res, sim, plant, rng>>

\* whole frames in a row, while their deltas sum to at most the cap: where the
\* row started, its length and the passes made in it
Chained(passes, delta) ==
  IF delta # FrameMs * MsPerSec THEN Unchained
  ELSE IF hist.chain = 0 \/ (hist.chain + 1) * FrameMs > StallCapMs
  THEN [chain |-> 1, chainPasses |-> passes,
        snapshot |-> [w |-> [plant |-> plant, pid |-> pid, res |-> res, rng |-> rng],
                      loop |-> loop, passes |-> 0]]
  ELSE [chain |-> hist.chain + 1, chainPasses |-> hist.chainPasses + passes,
        snapshot |-> hist.snapshot]

\* a cleanup that cancels nothing: the frame requested last still runs
StillScheduled(lp) == TRUE

\* the browser calls loop while a callback is pending: the effect requests
\* the first frame when isRunning is true, each frame requests the next, and
\* the effect's cleanup (and its !isRunning branch) calls cancelAnimationFrame
Scheduled(lp) == lp.pending # {}

\* requestAnimationFrame calls loop(currentTime)
LoopFrame ==
  /\ Scheduled(loop)
  /\ hist.frames < MaxFrames
  /\ \E delta \in FrameDeltas :
       \E f \in {loopFrame(sim, [plant |-> plant, pid |-> pid, res |-> res, rng |-> rng],
                           loop, delta)} :
         /\ plant' = f.w.plant
         /\ pid' = f.w.pid
         /\ res' = f.w.res
         /\ rng' = f.w.rng
         /\ loop' = f.loop
         /\ hist' = [op |-> "frame", frames |-> hist.frames + 1, clicks |-> hist.clicks,
                     passes |-> f.passes, delta |-> delta, before |-> loop.accumulator]
                    @@ Chained(f.passes, delta) @@ Sampled(f.sampled, f.w.plant.time)
                    @@ Clocked(sim, delta)
  /\ UNCHANGED <<cfg, sim>>

NextLoop == LoopStart \/ LoopStop \/ LoopRestart \/ LoopFrame

SpecLoop == InitLoop /\ [][NextLoop]_vars

----------------------------------------------------------------------------
\* C7: however long the gap before a frame, the frame makes at most
\* 50 * timeScale / (dt * 1000) passes of its while loop: 50 in the hook and the
\* standalone simulators, 300 in the hot tub
StallCap == hist.op = "frame" => hist.passes <= StallSteps(sim)

\* a frame of the hot tub after a second's gap, entered with time left in the
\* accumulator, makes exactly 300 passes
StallCapWitness ==
  /\ hist.op = "frame"
  /\ sim.name = "HotTub"
  /\ hist.delta > StallCapMs * MsPerSec
  /\ hist.before > 0
  /\ hist.passes = StallSteps(sim)
  /\ plant.time >= hist.passes * sim.dtMs

\* C5: a row of N frames of 16 ms each, 16 * N <= 50, leaves the plant, the
\* controller, the generator and the accumulator as one frame of 16 * N ms from
\* the state the row started in does, and makes as many passes
FrameRateIndependence ==
  hist.op = "frame" /\ hist.chain >= 1 =>
    \E one \in {loopFrame(sim, hist.snapshot.w, hist.snapshot.loop,
                          hist.chain * FrameMs * MsPerSec)} :
      /\ one.passes = hist.chainPasses
      /\ one.w.plant = plant
      /\ one.w.pid = pid
      /\ one.w.rng = rng
      /\ one.loop.accumulator = loop.accumulator

\* two frames of 16 ms in a row, entered with time left in the accumulator,
\* in which the plant and the controller moved
FrameRateIndependenceWitness ==
  /\ hist.op = "frame"
  /\ hist.chain * FrameMs > FrameMs
  /\ hist.snapshot.loop.accumulator > 0
  /\ loop.accumulator = hist.snapshot.loop.accumulator
  /\ hist.chainPasses * sim.dtMs = hist.chain * FrameMs * sim.timeScale
  /\ plant # hist.snapshot.w.plant
  /\ pid # hist.snapshot.w.pid

----------------------------------------------------------------------------
(* Two runs of compute-and-step side by side: the drone of HotTub.jsx and   *)
(* the standalone pendulum, from the same plant and controller state, with  *)
(* the same gains, dt and generator; what the step does not name as an      *)
(* input, the manual slider, is chosen for each run and each pass.          *)

MaxTwinSteps == 4
MaxTwinResets == 1

\* states of the generator at the start of a run
TwinSeeds == {0, RandomModulus \div 2}

\* positions of the manual slider, in thousandths
HiddenInputs == {-MsPerSec, MsPerSec}

TwinGains(sm) ==
  {sm.defaultGains, [kp |-> 0, ki |-> 0, kd |-> 0], [kp |-> 500, ki |-> 200, kd |-> 0]}

TwinControlSet(sm) ==
  IF sm.plant = "drone"
  THEN {[controlMode |-> "pid", userInput |-> 0, pidGains |-> g] : g \in TwinGains(sm)}
  ELSE {[controlMode |-> "pid", userInput |-> 0, pidGains |-> g,
         disturbanceType |-> d, nudgeAmplitude |-> 30 * MsPerSec, nudgePeriodMs |-> 2000] :
          g \in TwinGains(sm), d \in {"off", "nudges"}}

InitTwin ==
  /\ sim \in {Drone, PendulumStandalone}
  /\ cfg = sim.pid
  /\ plant = InitialWorld(sim).plant
  /\ pid = InitialWorld(sim).pid
  /\ res = NoResult
  /\ rng \in TwinSeeds
  /\ \E ctl \in TwinControlSet(sim) : loop = [isRunning |-> TRUE, ctl |-> ctl]
  /\ hist = [op |-> "init", steps |-> 0, resets |-> 0, hidden |-> <<0, 0>>,
             twin |-> [plant |-> plant, pid |-> pid, res |-> res, rng |-> rng]]

\* one pass of the while loop in each of the two runs
TwinStep ==
  /\ hist.steps < MaxTwinSteps
  /\ \E one \in HiddenInputs, other \in HiddenInputs :
       \E w \in {Iterate(sim, [plant |-> plant, pid |-> pid, res |-> res, rng |-> rng],
                         [loop.ctl EXCEPT !.userInput = one])},
          v \in {Iterate(sim, hist.twin, [loop.ctl EXCEPT !.userInput = other])} :
         /\ plant' = w.plant
         /\ pid' = w.pid
         /\ res' = w.res
         /\ rng' = w.rng
         /\ hist' = [hist EXCEPT !.op = "step", !.steps = @ + 1,
                                 !.hidden = <<one, other>>,
                                 !.twin = [plant |-> v.plant, pid |-> v.pid,
                                           res |-> v.res, rng |-> v.rng]]
  /\ UNCHANGED <<cfg, sim, loop>>

\* resetSimulation() in each of the two runs
TwinReset ==
  /\ hist.resets < MaxTwinResets
  /\ hist.steps > 0
  /\ \E w \in {resetSimulation(sim, [plant |-> plant, pid |-> pid, res |-> res,
                                     rng |-> rng], loop.ctl)},
        v \in {resetSimulation(sim, hist.twin, loop.ctl)} :
       /\ plant' = w.plant
       /\ pid' = w.pid
       /\ rng' = w.rng
       /\ hist' = [hist EXCEPT !.op = "reset", !.resets = @ + 1, !.twin = v]
  /\ UNCHANGED <<cfg, res, sim, loop>>

NextTwin == TwinStep \/ TwinReset

SpecTwin == InitTwin /\ [][NextTwin]_vars

----------------------------------------------------------------------------
(* simulateStep of the three drones as a function of the state and the     *)
(* control signal, applied to drones close to the floor and the ceiling.   *)

MaxDroneSteps == 2

\* distances from the floor and the ceiling, in thousandths of a metre, and
\* vertical speeds, in metres per second, of the drones the step is applied to
EdgeDistances == {0, 1, 2, 3}
EdgeSpeeds == {-2, -1, 0, 1, 2}

\* a control signal beyond the thrust range of every drone, in newtons
BeyondThrust == 3000

\* control signals: far below and far above the thrust range, none, and the
\* one that balances the weight of the drone
DroneSignals(sm) ==
  {-BeyondThrust * MsPerSec, 0, BeyondThrust * MsPerSec,
   MulDiv(GRAVITY, sm.mass, MsPerSec) - sm.hover}

\* non-crashed drones strictly inside the airspace, without and with a payload
\* of MASS_INCREMENT (addWeight, or the mass slider of the standalone)
EdgeDrones(sm) ==
  {[droneInitialState(sm) EXCEPT !.altitude = a, !.velocity = v * Unit, !.mass = m] :
     a \in {InitialAltitude * Unit}
           \cup {CRASH_FLOOR * Unit + d * MsPerSec : d \in EdgeDistances \ {0}}
           \cup {MAX_ALTITUDE * Unit - d * MsPerSec : d \in EdgeDistances \ {0}},
     v \in EdgeSpeeds,
     m \in {sm.mass, sm.mass + MASS_INCREMENT}}

StandaloneControl ==
  [controlMode |-> "pid", pidGains |-> DroneStandalone.defaultGains,
   setpointMode |-> "constant", constantSetpoint |-> InitialAltitude * Unit]

InitDrone ==
  /\ sim \in {Drone, LegacyDrone, DroneStandalone}
  /\ cfg = sim.pid
  /\ plant \in EdgeDrones(sim)
  /\ pid = InitialState(sim.pid.kind)
  /\ res = NoResult
  /\ rng = 0
  /\ loop = NoLoop
  /\ hist = [op |-> "init", steps |-> 0, prev |-> plant, signal |-> 0,
             moved |-> [altitude |-> plant.altitude, velocity |-> plant.velocity]]

\* simulateStep(controlSignal)
DroneStep ==
  /\ hist.steps < MaxDroneSteps
  /\ \E signal \in DroneSignals(sim) :
       /\ plant' = droneSimulateStep(sim, plant, signal, StandaloneControl)
       /\ hist' = [op |-> "step", steps |-> hist.steps + 1, prev |-> plant,
                   signal |-> signal,
                   moved |-> droneIntegrate(sim, plant, signal)]
  /\ UNCHANGED <<cfg, pid, res, sim, loop, rng>>

NextDrone == DroneStep

SpecDrone == InitDrone /\ [][NextDrone]_vars

\* the altitude after the integration of the last step, before the clamp
PostAltitude == hist.moved.altitude

\* C11 as stated: a step of a non-crashed drone sets crashed exactly when the
\* altitude after integration is outside the closed interval [0, MAX_ALTITUDE];
\* an altitude equal to 0 or to MAX_ALTITUDE leaves the drone flying
CrashOutsideClosedInterval ==
  hist.op = "step" /\ ~hist.prev.crashed =>
    (plant.crashed <=> (PostAltitude < CRASH_FLOOR * Unit
                        \/ PostAltitude > MAX_ALTITUDE * Unit))

\* C11, amended: a step of a non-crashed drone sets crashed exactly when the
\* altitude after integration is at or below 0 or at or above MAX_ALTITUDE;
\* an altitude strictly between the two leaves the drone flying
CrashAtOrBeyondLimit ==
  hist.op = "step" /\ ~hist.prev.crashed =>
    /\ plant.crashed <=> (PostAltitude <= CRASH_FLOOR * Unit
                          \/ PostAltitude >= MAX_ALTITUDE * Unit)
    /\ ~plant.crashed => plant.altitude = PostAltitude

\* a step of a flying drone that ends exactly at the ceiling, and crashes
CrashAtOrBeyondLimitWitness ==
  /\ hist.op = "step"
  /\ ~hist.prev.crashed
  /\ hist.prev.altitude < MAX_ALTITUDE * Unit
  /\ PostAltitude = MAX_ALTITUDE * Unit
  /\ plant.crashed

----------------------------------------------------------------------------
(* simulateStep of the three cart-pendulums as a function of the state, the *)
(* force and the noise, applied to pendulums close to the horizontal and to *)
(* carts close to either end of the track.                                  *)

MaxCartSteps == 2

\* how far from the horizontal and from the end of the track the pendulums
\* start, in micro-units, and their rates, in units per second
EdgeGap == 500
EdgeRates == {-1, 1}

\* forces passed to the step, in newtons
CartForces == {-ForceLimit, 0, ForceLimit}

\* upright pendulums in the middle of the track, and non-terminal pendulums
\* within half a millimetre of a limit
EdgePendulums(sm) ==
  {[pendulumInitialState(sm, theta) EXCEPT !.x = x, !.thetaDot = thetaDot * Unit,
                                           !.xDot = xDot * Unit] :
     theta \in {InitialTheta, PI \div 2 - EdgeGap, EdgeGap - PI \div 2},
     x \in {0, TrackLimit(sm) - EdgeGap, EdgeGap - TrackLimit(sm)},
     thetaDot \in EdgeRates, xDot \in EdgeRates}

InitCart ==
  /\ sim \in {Pendulum, PendulumStandalone, HookPendulum}
  /\ cfg = sim.pid
  /\ plant \in EdgePendulums(sim)
  /\ pid = InitialState(sim.pid.kind)
  /\ res = NoResult
  /\ rng = 0
  /\ loop = NoLoop
  /\ hist = [op |-> "init", steps |-> 0, prev |-> plant, force |-> 0,
             moved |-> [theta |-> plant.theta, x |-> plant.x]]

\* simulateStep(force), with the next value of Math.random()
CartStep ==
  /\ hist.steps < MaxCartSteps
  /\ \E force \in CartForces :
       /\ plant' = pendulumSimulateStep(sim, plant, force * MsPerSec, 0,
                                        Symmetric(rng, NOISE_AMPLITUDE))
       /\ hist' = [op |-> "step", steps |-> hist.steps + 1, prev |-> plant,
                   force |-> force * MsPerSec,
                   moved |-> IF Terminal(plant) THEN hist.moved
                             ELSE pendulumDynamics(plant, force * MsPerSec, 0,
                                                   Symmetric(rng, NOISE_AMPLITUDE),
                                                   sim.dtMs)]
  /\ rng' = IF Terminal(plant) THEN rng ELSE NextRandom(rng)
  /\ UNCHANGED <<cfg, pid, res, sim, loop>>

NextCart == CartStep

SpecCart == InitCart /\ [][NextCart]_vars

\* C12: in every cart-pendulum, a step of a non-terminal pendulum makes it
\* terminal exactly when, after the integration and the normalisation of the
\* angle, |theta| > pi/2 or |x| > TRACK_WIDTH / 2 - 0.2
CartTerminalConditions ==
  hist.op = "step" /\ ~Terminal(hist.prev) =>
    (Terminal(plant) <=> (Toppled(hist.moved.theta)
                          \/ Abs(hist.moved.x) > TrackLimit(sim)))

----------------------------------------------------------------------------
\* C13: compute(error, gains, dt) returns {output, errorP, errorI, errorD}:
\* errorP is the error, errorI the clamped integral after the update, errorD
\* the mean of the derivative window after this call's raw derivative was
\* pushed, and output = kp * errorP + ki * errorI + kd * errorD, unclamped
ComputeResult ==
  hist.op = "compute" /\ cfg.kind \in {"utils", "windowed"} =>
    /\ DOMAIN res = {"output", "errorP", "errorI", "errorD"}
    /\ res.errorP = pid.prevError
    /\ res.errorI = pid.integral
    /\ res.errorD = MovingAverage(pid.derivativeHistory)
    /\ \E gains \in GainSet :
         res.output = PIDOutput(gains, res.errorP, res.errorI, res.errorD)

----------------------------------------------------------------------------
\* C14: after k compute calls since construction or reset the derivative
\* window holds exactly min(k, windowSize) samples, never none after a
\* compute and never more than windowSize; each compute appends its raw
\* derivative behind the samples already held and, when that makes more than
\* windowSize, evicts the oldest, so the window is the raw derivatives of
\* the most recent min(k, windowSize) calls in call order
WindowCount ==
  cfg.kind = "windowed" =>
    /\ Len(pid.derivativeHistory) =
         (IF hist.calls < cfg.derivativeWindowSize THEN hist.calls
          ELSE cfg.derivativeWindowSize)
    /\ hist.calls > 0 => Len(pid.derivativeHistory) >= 1
    /\ Len(pid.derivativeHistory) <= cfg.derivativeWindowSize

WindowShift ==
  cfg.kind = "windowed" /\ hist'.calls = hist.calls + 1 =>
    LET raw   == WindowedRawDerivative(pid, pid'.prevError, cfg.dtMs)
        all   == Append(pid.derivativeHistory, raw)
        first == IF Len(all) > cfg.derivativeWindowSize
                 THEN Len(all) - cfg.derivativeWindowSize + 1 ELSE 1
    IN  pid'.derivativeHistory = SubSeq(all, first, Len(all))

DerivativeWindowFIFO == [](WindowCount) /\ [][WindowShift]_vars

\* a full window takes one more sample that differs from the one it evicts
DerivativeWindowFIFOWitness ==
  /\ cfg.kind = "windowed"
  /\ hist.op = "compute"
  /\ hist.calls > cfg.derivativeWindowSize
  /\ Len(pid.derivativeHistory) = cfg.derivativeWindowSize
  /\ pid.derivativeHistory[cfg.derivativeWindowSize] # 0
  /\ pid.derivativeHistory[1] # pid.derivativeHistory[cfg.derivativeWindowSize]

----------------------------------------------------------------------------
\* C15: after reset(), whatever the controller state was, the state is that
\* of a newly constructed controller (integral 0, prevError 0, and in the
\* windowed controller initialized false and an empty derivative window),
\* so a compute call returns what it returns on a fresh controller of the
\* same configuration
ResetIsFresh ==
  hist.op = "reset" =>
    /\ pid = InitialState(cfg.kind)
    /\ pid.integral = 0
    /\ pid.prevError = 0
    /\ cfg.kind = "windowed" => ~pid.initialized /\ pid.derivativeHistory = << >>
    /\ \A error \in ErrorSet, gains \in GainSet :
         Compute(cfg, pid, error, gains, cfg.dtMs)
           = Compute(cfg, InitialState(cfg.kind), error, gains, cfg.dtMs)

\* reset() was called on a windowed controller that had computed
ResetIsFreshWitness ==
  hist.op = "reset" /\ hist.used /\ cfg.kind = "windowed"

----------------------------------------------------------------------------
\* C16: resetIntegral() sets the integral to 0 and leaves prevError, the
\* initialized flag, the derivative window and the configured bounds as they
\* were, so the next compute call uses the derivative term it would have
\* used had resetIntegral not been called
ResetIntegralStep ==
  hist'.op = "resetIntegral" =>
    /\ pid' = [pid EXCEPT !.integral = 0]
    /\ cfg' = cfg
    /\ \A error \in ErrorSet, gains \in GainSet :
         DerivativeOf(cfg', Compute(cfg', pid', error, gains, cfg'.dtMs).result)
           = DerivativeOf(cfg, Compute(cfg, pid, error, gains, cfg.dtMs).result)

ResetIntegralFrame == [][ResetIntegralStep]_vars

\* resetIntegral() was called on a windowed controller with a nonzero
\* integral, a nonzero previous error and a nonempty window
ResetIntegralFrameWitness ==
  /\ hist.op = "resetIntegral"
  /\ hist.held
  /\ cfg.kind = "windowed"
  /\ pid.integral = 0
  /\ pid.prevError # 0
  /\ pid.initialized
  /\ pid.derivativeHistory # << >>

----------------------------------------------------------------------------
\* C20: every controller that drives a drone is configured with finite
\* integral limits, and in every reachable state of every drone variant,
\* added mass included, its integral lies within those limits
FiniteDroneAntiWindup ==
  sim.plant = "drone" =>
    /\ cfg.integralMin > -Infinity
    /\ cfg.integralMax < Infinity
    /\ pid.integral >= cfg.integralMin
    /\ pid.integral <= cfg.integralMax

----------------------------------------------------------------------------
\* C19: in automatic and manual mode and under every disturbance, the force
\* a pass of a pendulum's loop hands to simulateStep, and the force the
\* state records, lie within [-50 N, 50 N]
CartForceBound ==
  sim.plant = "pendulum" /\ hist.op = "step" =>
    /\ Abs(hist.input) <= ForceLimit * MsPerSec
    /\ Abs(plant.force) <= ForceLimit * MsPerSec

----------------------------------------------------------------------------
\* C17: over passes of the loop, resets and the other buttons, a plant's
\* terminal flag goes from false to true only in a pass whose resulting state
\* is at or beyond the plant's physical bound (a drone at or below the floor
\* or at or above the ceiling, a pendulum past a quarter turn or past the end
\* of the track), and from true to false only in a reset, which leaves time
\* at 0 and the plant in its initial state (a pendulum with the small random
\* angle the reset draws)
TerminalStep ==
  /\ ~Terminal(plant) /\ Terminal(plant') =>
       /\ hist'.op = "step"
       /\ hist'.steps = hist.steps + 1
       /\ IF sim.plant = "drone"
          THEN plant'.altitude <= 0 \/ plant'.altitude >= MAX_ALTITUDE * Unit
          ELSE 2 * Abs(plant'.theta) > PI \/ Abs(plant'.x) > TRACK_WIDTH \div 2 - TrackMargin
  /\ Terminal(plant) /\ ~Terminal(plant') =>
       /\ hist'.op = "reset"
       /\ plant'.time = 0
       /\ IF sim.plant = "drone"
          THEN plant' = [droneInitialState(sim) EXCEPT !.setpoint = plant'.setpoint]
          ELSE /\ plant' = pendulumInitialState(sim, plant'.theta)
               /\ Abs(plant'.theta) <= ResetThetaAmplitude

----------------------------------------------------------------------------
\* C18: a stop sets the running flag to false and leaves the plant state, its
\* time and the controller state as the last pass left them; while the flag
\* is false no frame runs, so no pass and no compute is made and the state
\* stays as it is until the flag is true again
CancellationStep ==
  /\ hist'.op = "stop" =>
       /\ ~loop'.isRunning
       /\ UNCHANGED <<plant, pid, res, rng>>
       /\ loop'.accumulator = loop.accumulator
  /\ ~loop.isRunning =>
       /\ hist'.op # "frame"
       /\ hist'.frames = hist.frames
       /\ loop'.isRunning \/ UNCHANGED <<plant, pid, res, rng>>

----------------------------------------------------------------------------
\* the velocity a step of the drone of the last step must leave, from
\* netForce = (hover + clamp(u, minThrust, maxThrust)) - mass * gravity and
\* acceleration = netForce / mass
DynamicsVelocity ==
  LET u        == MathMax(sim.minThrust, MathMin(sim.maxThrust, hist.signal))
      netForce == (sim.hover + u) - MulDiv(GRAVITY, hist.prev.mass, MsPerSec)
  IN  hist.prev.velocity + MulDiv(MsPerSec, netForce, hist.prev.mass) * sim.dtMs

\* C21 as stated: in every drone a step of a non-crashed drone applies the
\* net force and the acceleration above, and with u = 0 and no payload the
\* step leaves the velocity as it was
ThrustBodyDynamics ==
  hist.op = "step" /\ ~hist.prev.crashed =>
    /\ hist.moved.velocity = DynamicsVelocity
    /\ hist.signal = 0 /\ hist.prev.mass = sim.mass =>
         hist.moved.velocity = hist.prev.velocity

\* C21, amended: every drone applies the net force and the acceleration
\* above; with u = 0 and no payload the step leaves the velocity as it was
\* in the drones with a hover baseline of BASE_DRONE_MASS * GRAVITY, and in
\* the standalone drone, whose baseline is 0, it takes gravity * dt off it
ThrustBodyDynamicsByBaseline ==
  hist.op = "step" /\ ~hist.prev.crashed =>
    /\ hist.moved.velocity = DynamicsVelocity
    /\ hist.signal = 0 /\ hist.prev.mass = sim.mass =>
         IF sim.name = "DroneStandalone"
         THEN /\ sim.hover = 0
              /\ hist.moved.velocity = hist.prev.velocity - GRAVITY * sim.dtMs
         ELSE /\ sim.hover = baseHoverThrust
              /\ hist.moved.velocity = hist.prev.velocity

\* a moving drone of HotTub.jsx without payload steps with no signal, keeps
\* its velocity and flies on
ThrustBodyDynamicsByBaselineWitness ==
  /\ hist.op = "step"
  /\ sim.name = "Drone"
  /\ ~hist.prev.crashed
  /\ hist.prev.mass = sim.mass
  /\ hist.prev.velocity # 0
  /\ hist.signal = 0
  /\ ~plant.crashed
  /\ plant.velocity = hist.prev.velocity

----------------------------------------------------------------------------
\* C22: each pass of a drone's while loop obtains one actuation value, from
\* one PID compute on the state before the step in automatic mode and from
\* the manual input otherwise, and then makes one plant step with that value;
\* so the computes made equal the steps made: in the standalone drone, whose
\* controller keeps a sample per compute, a flight of fewer passes than the
\* window holds has as many samples as steps of dt
OneActuationPass ==
  sim.plant = "drone" /\ hist'.steps = hist.steps + 1 =>
    \E ctl \in PlantControlSet(sim) :
      LET actuation == IF PidSelected(ctl) THEN res'.output
                       ELSE ManualInput(sim, ctl.userInput)
      IN  /\ hist'.input = actuation
          /\ plant' = droneSimulateStep(sim, plant, actuation, ctl)
          /\ ~Terminal(plant) => plant'.time = plant.time + sim.dtMs
          /\ IF PidSelected(ctl)
             THEN LET r == Compute(cfg, pid, plant.setpoint - plant.altitude,
                                   ctl.pidGains, sim.dtMs)
                  IN  pid' = r.state /\ res' = r.result
             ELSE pid' = pid /\ res' = res

ComputesMatchSteps ==
  (/\ sim.name = "DroneStandalone"
   /\ ~plant.crashed
   /\ plant.time < cfg.derivativeWindowSize * sim.dtMs)
    => Len(pid.derivativeHistory) * sim.dtMs = plant.time

----------------------------------------------------------------------------
\* C23: in every run, changes of gains, mode, manual input or displayed
\* statistics while running included, two plot samples recorded one after
\* the other are at least one plot interval of simulated time apart: 0.05 s
\* for the drone and the pendulum, 60 s for the hot tub
PlotSamplingRateLimit ==
  hist.gap >= 0 =>
    hist.gap >= (IF sim.plant = "tub" THEN TubPlotInterval * MsPerSec ELSE PlotIntervalMs)

----------------------------------------------------------------------------
(* calculateNudgeForce of the standalone pendulum as a function of the     *)
(* simulated time and the disturbance settings, over the times k * DT of a *)
(* run.                                                                    *)

\* the simulated time the generator is followed to, in milliseconds: the
\* longest period the slider offers and the start of the next
MaxNudgeTime == 10500

\* nudge frequencies of the slider (0.1 Hz to 2.0 Hz in steps of 0.1), in
\* tenths of a hertz: those whose period is a whole number of milliseconds
NudgeFrequencies == {1, 5, 8, 10, 20}

\* nudge amplitudes of the slider (5 N to 50 N), in newtons
NudgeAmplitudes == {5, 30}

\* the disturbance settings: off, nudges of each frequency and amplitude,
\* tilts with the default amplitude and frequency
NudgeControls ==
  {[controlMode |-> "pid", pidGains |-> PendulumStandalone.defaultGains,
    disturbanceType |-> "off"],
   [controlMode |-> "pid", pidGains |-> PendulumStandalone.defaultGains,
    disturbanceType |-> "tilts", tiltAmplitude |-> 5, tiltPeriodMs |-> 5000]}
  \cup {[controlMode |-> "pid", pidGains |-> PendulumStandalone.defaultGains,
         disturbanceType |-> "nudges", nudgeAmplitude |-> a * MsPerSec,
         nudgePeriodMs |-> (10 * MsPerSec) \div f] :
          a \in NudgeAmplitudes, f \in NudgeFrequencies}

\* the half-period a time lies in, counted from time 0
HalfPeriodOf(ctl, time) ==
  IF ctl.disturbanceType = "nudges" THEN (2 * time) \div ctl.nudgePeriodMs
  ELSE time \div MsPerSec

\* quiet: the force was 0 at some time of the half-period the time lies in;
\* closed: every half-period that has ended had such a time; halves: the
\* half-periods that have ended
InitNudge ==
  /\ sim = PendulumStandalone
  /\ cfg = sim.pid
  /\ pid = InitialState(cfg.kind)
  /\ rng = 0
  /\ plant = NoPlant
  /\ \E ctl \in NudgeControls :
       /\ loop = [isRunning |-> TRUE, ctl |-> ctl]
       /\ res = [output |-> calculateNudgeForce(ctl, 0)]
       /\ hist = [op |-> "init", quiet |-> calculateNudgeForce(ctl, 0) = 0,
                  closed |-> TRUE, halves |-> 0]

\* state.time += DT, and calculateNudgeForce(state.time) of the next pass
NudgeTick ==
  /\ plant.time < MaxNudgeTime
  /\ \E time \in {plant.time + sim.dtMs} :
       \E force \in {calculateNudgeForce(loop.ctl, time)} :
         /\ plant' = [plant EXCEPT !.time = time]
         /\ res' = [output |-> force]
         /\ hist' = IF HalfPeriodOf(loop.ctl, time) # HalfPeriodOf(loop.ctl, plant.time)
                    THEN [op |-> "tick", quiet |-> force = 0,
                          closed |-> hist.closed /\ hist.quiet,
                          halves |-> hist.halves + 1]
                    ELSE [hist EXCEPT !.op = "tick", !.quiet = @ \/ force = 0]
  /\ UNCHANGED <<cfg, pid, sim, loop, rng>>

NextNudge == NudgeTick

SpecNudge == InitNudge /\ [][NextNudge]_vars

\* C24: in nudge mode the force at a time is +amplitude when the time is
\* less than the impulse duration past the start of the first half of its
\* period, -amplitude when it is less than the impulse duration past the
\* start of the second half, and 0 otherwise; in the off and tilt modes it
\* is 0 at every time
NudgeGenerator ==
  IF loop.ctl.disturbanceType # "nudges" THEN res.output = 0
  ELSE LET period  == loop.ctl.nudgePeriodMs
           elapsed == plant.time - (plant.time \div period) * period
       IN  res.output =
             (IF 2 * elapsed < period /\ elapsed < NUDGE_IMPULSE_DURATION
              THEN loop.ctl.nudgeAmplitude
              ELSE IF 2 * elapsed >= period
                      /\ 2 * elapsed - period < 2 * NUDGE_IMPULSE_DURATION
              THEN -loop.ctl.nudgeAmplitude
              ELSE 0)

\* the generator at 0.5 Hz in the impulse of a second half-period, after a
\* positive impulse and a quiet time
NudgeGeneratorWitness ==
  /\ loop.ctl.disturbanceType = "nudges"
  /\ loop.ctl.nudgePeriodMs = 2000
  /\ plant.time = 3 * 1000 + 499
  /\ hist.halves = 3
  /\ hist.closed
  /\ res.output = -loop.ctl.nudgeAmplitude

\* C30: for every nudge frequency of the slider, every half-period has a
\* time at which the nudge force is 0
NudgeQuietTime ==
  loop.ctl.disturbanceType = "nudges" => hist.closed

----------------------------------------------------------------------------
\* C25: after every frame of a running loop the accumulator is at least 0
\* and less than dt * 1000 ms, and the part of a step left over is carried
\* into the next frame, so that the simulated time advanced since the loop
\* was started is dt times the whole steps in the capped, scaled frame time
\* of the run
AccumulatorInvariant ==
  hist.op = "frame" =>
    /\ loop.accumulator >= 0
    /\ loop.accumulator < StepTime(sim)
    /\ ~Flagged(plant) =>
         plant.time - hist.origin = sim.dtMs * (hist.elapsed \div StepTime(sim))

----------------------------------------------------------------------------
\* C26: once the plant is terminal, a further pass of a loop that is still
\* running changes neither the plant state nor the controller state
\* (integral, prevError, derivative window)
FrozenPass ==
  Flagged(plant) /\ hist'.steps = hist.steps + 1 => plant' = plant /\ pid' = pid

ControllerFrozenWhileTerminal == [][FrozenPass]_vars

\* C27: while a drone is crashed, no control input other than reset (new
\* setpoint, add weight, mass change) alters the plant state or the
\* controller integral; on a drone that has not crashed, add-weight raises the
\* mass by exactly MASS_INCREMENT and leaves the rest, and new-setpoint sets a
\* setpoint within [SETPOINT_MIN, SETPOINT_MAX] and zeroes only the integral
ControlInputStep ==
  /\ hist'.op \in {"changeSetpoint", "addWeight", "setMass"}
       /\ hist'.clicks = hist.clicks + 1 /\ Flagged(plant) =>
         plant' = plant /\ pid'.integral = pid.integral
  /\ hist'.op = "addWeight" /\ hist'.clicks = hist.clicks + 1 /\ ~Flagged(plant) =>
       /\ plant'.mass = plant.mass + MASS_INCREMENT
       /\ [plant' EXCEPT !.mass = plant.mass] =
            (IF "massAdded" \in DOMAIN plant
             THEN [plant EXCEPT !.massAdded = @ + 1] ELSE plant)
       /\ pid' = pid
  /\ hist'.op = "changeSetpoint" /\ hist'.clicks = hist.clicks + 1 /\ ~Flagged(plant) =>
       /\ plant'.setpoint >= DroneSetpointMin * Unit
       /\ plant'.setpoint <= DroneSetpointMax * Unit
       /\ plant' = [plant EXCEPT !.setpoint = plant'.setpoint]
       /\ pid' = [pid EXCEPT !.integral = 0]

ControlInputsInert == [][ControlInputStep]_vars

----------------------------------------------------------------------------
(* Start, Stop and frames on simulators that are about to crash or fall    *)

\* the runs a click on Start may follow: each simulator with a terminal flag
\* and a Start button of its own, as constructed and one frame before the end
\* of its flight or its balance (the pendulum of hooks/usePhysicsSimulation.js
\* in manual mode with the slider at 0 falls at pass 2060)
StartRuns ==
  {[sm |-> LightDroneStandalone, passes |-> n,
    ctl |-> [controlMode |-> "pid", pidGains |-> [kp |-> 200, ki |-> 0, kd |-> 0],
             setpointMode |-> "constant",
             constantSetpoint |-> (MAX_ALTITUDE - 5) * Unit]] : n \in {0, 226}}
  \cup {[sm |-> PendulumStandalone, passes |-> n,
         ctl |-> [controlMode |-> "pid", pidGains |-> [kp |-> 0, ki |-> 0, kd |-> 0],
                  disturbanceType |-> "off"]] : n \in {0, 907}}
  \cup {[sm |-> HookPendulum, passes |-> n,
         ctl |-> [controlMode |-> "user", userInput |-> 0,
                  pidGains |-> HookPendulum.defaultGains, nudgeForce |-> 0]] :
           n \in {0, 2050}}

\* the loop runs, its effect has just run again
InitStart ==
  \E r \in StartRuns :
    \E w \in {RunSteps(r.sm, InitialWorld(r.sm), r.ctl, r.passes)} :
      /\ sim = r.sm
      /\ cfg = r.sm.pid
      /\ plant = w.plant
      /\ pid = w.pid
      /\ res = w.res
      /\ rng = w.rng
      /\ loop = [isRunning |-> TRUE, accumulator |-> 0, lastPlotTime |-> 0,
                 errorAccumulator |-> 0, cumulativeError |-> 0, bestTime |-> 0,
                 ctl |-> r.ctl, pending |-> {1}, animationRef |-> 1, requests |-> 1]
      /\ hist = [op |-> "init", frames |-> 0, clicks |-> 0, passes |-> 0, delta |-> 0,
                 before |-> 0] @@ Unchained @@ NoSamples
                 @@ [elapsed |-> 0, origin |-> w.plant.time]

NextStart == LoopStart \/ LoopStop \/ LoopFrame

SpecStart == InitStart /\ [][NextStart]_vars

\* C28: a click on Start while the plant is terminal resets the simulation
\* before any pass runs (the flag cleared, time 0, the plant at its initial
\* values, the controller reset), so that no loop starts on a terminal plant
StartStep ==
  hist'.op = "start" /\ Flagged(plant) =>
    /\ ~Flagged(plant')
    /\ plant'.time = 0
    /\ sim.plant = "drone" => plant'.altitude = InitialAltitude * Unit /\ plant'.velocity = 0
    /\ sim.plant = "pendulum" => plant'.x = 0 /\ plant'.xDot = 0 /\ plant'.thetaDot = 0
    /\ pid' = InitialState(cfg.kind)

StartNotTerminal == hist.op = "start" => ~Flagged(plant)

StartFromTerminalResets == [](StartNotTerminal) /\ [][StartStep]_vars

----------------------------------------------------------------------------
\* C29: whatever the order of starts, stops, frames and changes of the
\* effect's dependencies, at most one animation-frame callback is pending, it
\* is the one animationRef holds, and none is pending once isRunning is false
\* and the cleanup has run
SingleFrameLoop ==
  /\ Cardinality(loop.pending) <= 1
  /\ loop.pending \subseteq {loop.animationRef}
  /\ ~loop.isRunning => loop.pending = {}
  /\ loop.isRunning => loop.pending # {}

\* a stop after a start, a change of a dependency and a frame, each of which
\* requested a frame
SingleFrameLoopWitness ==
  /\ hist.op = "stop"
  /\ hist.frames >= 1
  /\ loop.requests >= 3
  /\ ~loop.isRunning
  /\ loop.pending = {}

====
